---- MODULE Spec2Model ----
(***************************************************************************)
(* A model of coregent's wire protocol layer: the struct codec             *)
(* (coregent/net/struct.py), the JSON framing (coregent/net/json.py), the  *)
(* connection receive loop and the connection manager                      *)
(* (coregent/net/client.py), and the reference chat server                 *)
(* (examples/net_struct.py).                                               *)
(***************************************************************************)
EXTENDS Integers, Sequences, FiniteSets, TLC

VARIABLES
    plat,       \* struct.calcsize('L') of the build: 4 (LLP64/ILP32) or 8 (LP64)
    pure,       \* the last call of a pure codec function and its result
    sent,       \* every byte the peer has written to the socket, in order
    peerClosed, \* the peer has closed its end of the socket
    frames,     \* history of the peer's writes: whole frames, malformed frames, cut frames
    readers,    \* per connection: the StructReader and its handle_messages thread
    listeners,  \* ConnectionManager.listeners: name -> list of callbacks
    calls,      \* per connection: the listener invocations so far, in order
    clients,    \* the Client objects: their socket, their writer, their receive loop
    connections,\* ConnectionManager.connections: name -> the stored Client
    dispatched, \* per name: history of the messages handed to _handle_message
    result,     \* the last call of the application on a Client or the manager, and how it ended
    player_map, \* StructServer.player_map: username -> the writer of a connection
    queue_lock, \* StructServer.queue_lock: the connection thread holding it, if any
    handlers,   \* per inbound connection: its handle_connection thread and its socket
    socks,      \* per player: its connection's socket as the server's writers use it
    senders,    \* per broadcasting thread: where it is in forward_message and send
    iterating   \* per name: the for loop of _handle_message that is running, if any

manager == <<connections, dispatched, result>>
writers == <<socks, senders>>
steps == <<writers, iterating>>
server == <<player_map, queue_lock, handlers, steps>>

vars == <<plat, pure, sent, peerClosed, frames, readers, listeners, calls, clients,
          manager, server>>

-----------------------------------------------------------------------------
(* Python integers are unbounded; the lengths and ids of the codec reach    *)
(* 2^64. A number is five base-2^16 limbs, least significant first.         *)

Limb == 2^16
NumLimbs == 1..5

NumFromInt(n) == [i \in NumLimbs |-> IF i = 1 THEN n % Limb
                                      ELSE IF i = 2 THEN n \div Limb ELSE 0]

\* 2**bits
Pow2(bits) == [i \in NumLimbs |-> IF i - 1 = bits \div 16 THEN 2^(bits % 16) ELSE 0]

\* 2**bits - 1
Pow2Minus1(bits) ==
    [i \in NumLimbs |-> IF i - 1 < bits \div 16 THEN Limb - 1
                        ELSE IF i - 1 = bits \div 16 THEN 2^(bits % 16) - 1 ELSE 0]

\* a > b
NumGt(a, b) == \E i \in NumLimbs : /\ a[i] > b[i]
                                   /\ \A j \in NumLimbs : j > i => a[j] = b[j]

\* n - 1, for n > 0
NumDec(n) ==
    LET low == CHOOSE i \in NumLimbs : n[i] > 0 /\ \A j \in NumLimbs : j < i => n[j] = 0
    IN  [i \in NumLimbs |-> IF i < low THEN Limb - 1
                            ELSE IF i = low THEN n[i] - 1 ELSE n[i]]

NumZero == NumFromInt(0)

-----------------------------------------------------------------------------
(* struct format characters.                                                *)

\* struct.calcsize('!' + code): standard sizes
StdSize(code) ==
    CASE code = "?" -> 1 [] code = "B" -> 1 [] code = "H" -> 2
      [] code = "I" -> 4 [] code = "L" -> 4 [] code = "Q" -> 8

\* struct.calcsize(code): native sizes, where 'L' is the build's unsigned long
NativeSize(code, nl) == IF code = "L" THEN nl ELSE StdSize(code)

\* the largest value struct.pack('!' + code, v) accepts
StdMax(code) == Pow2Minus1(8 * StdSize(code))

IdCodes == <<"B", "H", "I", "L", "Q">>

\* MAX_IDS: (code, struct.unpack_from(code, b'\xff' * 8)) for the '!'-prefixed codes
MAX_IDS == [i \in 1..Len(IdCodes) |-> [code |-> IdCodes[i], size |-> StdMax(IdCodes[i])]]

\* next(code for code, size in MAX_IDS if size > max_id)
get_id_code(max_id) ==
    LET fits == {i \in 1..Len(MAX_IDS) : NumGt(MAX_IDS[i].size, max_id)}
    IN  IF fits = {} THEN "StopIteration"
        ELSE MAX_IDS[CHOOSE i \in fits : \A j \in fits : i <= j].code

-----------------------------------------------------------------------------
(* Parameter codecs. A text value is a sequence of code points; a byte       *)
(* block is a sequence of 0..255.                                           *)

\* Python's Optional: None is the empty set, a value v is {v}
None == {}
Some(v) == {v}
The(opt) == CHOOSE v \in opt : TRUE

\* str.encode(): UTF-8 of one code point below 2^11
EncodeChar(cp) == IF cp < 128 THEN <<cp>> ELSE <<192 + (cp \div 64), 128 + (cp % 64)>>

RECURSIVE Encode(_)
Encode(text) == IF text = <<>> THEN <<>> ELSE EncodeChar(Head(text)) \o Encode(Tail(text))

\* bytes.decode(): the text, or err = "UnicodeDecodeError"
RECURSIVE Decode(_)
Decode(bs) ==
    IF bs = <<>> THEN [err |-> "ok", text |-> <<>>]
    ELSE IF bs[1] < 128 THEN
        LET rest == Decode(Tail(bs))
        IN  [rest EXCEPT !.text = <<bs[1]>> \o @]
    ELSE IF bs[1] >= 194 /\ bs[1] < 224 /\ Len(bs) >= 2 /\ bs[2] >= 128 /\ bs[2] < 192 THEN
        LET rest == Decode(Tail(Tail(bs)))
        IN  [rest EXCEPT !.text = <<(bs[1] - 192) * 64 + (bs[2] - 128)>> \o @]
    ELSE [err |-> "UnicodeDecodeError", text |-> <<>>]

\* Parameter(code)
Parameter(code) == [kind |-> "plain", struct_format |-> <<code>>]

\* MultiParameter(code, size): code is the sequence of the format's characters
MultiParameter(code, size) ==
    [kind |-> "multi", struct_format |-> code,
     size |-> IF size # None THEN The(size) ELSE Len(code)]

\* UnicodeParameter(code, max_length) on a build whose calcsize('L') is nl;
\* max_length is a number, 0 when the caller gives no cap
UnicodeParameter(code, max_length, nl) ==
    LET size_bits == 8 * NativeSize(code, nl)
        limit == Pow2Minus1(size_bits)
    IN  IF NumGt(max_length, limit) THEN [kind |-> "ValueError"]
        ELSE [kind |-> "unicode", struct_format |-> <<code>>,
              max_length |-> IF max_length # NumZero THEN max_length ELSE limit]

\* the length test of UnicodeParameter.pack, on the encoded length
PackSize(p, size) == IF NumGt(size, p.max_length) THEN "ValueError" ELSE "ok"

\* p.pack(value): (standard, special), or the error raised
Pack(p, value) ==
    CASE p.kind = "plain" -> [err |-> "ok", standard |-> <<value>>, special |-> <<>>]
      [] p.kind = "multi" -> [err |-> "ok", standard |-> value, special |-> <<>>]
      [] p.kind = "unicode" ->
            LET encoded == Encode(value)
                size == Len(encoded)
            IN  IF PackSize(p, NumFromInt(size)) = "ValueError"
                THEN [err |-> "ValueError", standard |-> <<>>, special |-> <<>>]
                ELSE [err |-> "ok", standard |-> <<size>>, special |-> <<encoded>>]

\* struct.pack('!' + code, v) accepts v
StructFits(code, v) == ~NumGt(v, StdMax(code))

\* Message.serialize of an instance whose one text field, of codec p, has an
\* encoded length of size bytes: the error raised, or "ok"
SerializeSized(p, size) ==
    IF PackSize(p, size) = "ValueError" THEN "ValueError"
    ELSE IF ~StructFits(p.struct_format[1], size) THEN "struct.error"
    ELSE "ok"

\* max(self.message_types), over a set of numbers
NumMax(S) == CHOOSE x \in S : \A y \in S : ~NumGt(y, x)

\* StructReader.__init__: the id format of a reader over these ids
StructReaderInit(ids, max_id) ==
    LET m == IF max_id # None /\ The(max_id) # NumZero THEN The(max_id) ELSE NumMax(ids)
    IN  get_id_code(m)

\* StructWriter.__init__: the id format of a writer over these ids
StructWriterInit(ids, max_id) ==
    LET m == IF max_id # None /\ The(max_id) # NumZero THEN The(max_id) ELSE NumMax(ids)
    IN  get_id_code(m)

-----------------------------------------------------------------------------
(* Messages and the struct layout.                                          *)

Min(a, b) == IF a < b THEN a ELSE b

\* int.to_bytes(v, n, 'big'), as struct.pack('!' + code, v) lays an integer out
RECURSIVE ToBytes(_, _)
ToBytes(v, n) == IF n = 0 THEN <<>> ELSE Append(ToBytes(v \div 256, n - 1), v % 256)

\* int.from_bytes(bs, 'big')
RECURSIVE FromBytes(_)
FromBytes(bs) ==
    IF bs = <<>> THEN 0 ELSE FromBytes(SubSeq(bs, 1, Len(bs) - 1)) * 256 + bs[Len(bs)]

RECURSIVE Concat(_)
Concat(seqs) == IF seqs = <<>> THEN <<>> ELSE Head(seqs) \o Concat(Tail(seqs))

\* Message(message_id, message_name, **parameters)
Message(message_id, message_name, parameters) ==
    [message_id |-> message_id, message_name |-> message_name, parameters |-> parameters]

\* Message.compile_parameters: the characters of '!' + ''.join(p.struct_format)
compile_parameters(mt) ==
    Concat([i \in 1..Len(mt.parameters) |-> mt.parameters[i].struct_format])

\* struct.Struct.size
RECURSIVE StructSize(_)
StructSize(codes) == IF codes = <<>> THEN 0 ELSE StdSize(Head(codes)) + StructSize(Tail(codes))

\* struct.Struct.pack(*args): the bytes, or err = "struct.error"
RECURSIVE StructPack(_, _)
StructPack(codes, args) ==
    IF Len(codes) # Len(args) THEN [err |-> "struct.error", bytes |-> <<>>]
    ELSE IF codes = <<>> THEN [err |-> "ok", bytes |-> <<>>]
    ELSE LET rest == StructPack(Tail(codes), Tail(args))
         IN  IF rest.err # "ok" \/ ~StructFits(Head(codes), NumFromInt(Head(args)))
             THEN [err |-> "struct.error", bytes |-> <<>>]
             ELSE [rest EXCEPT !.bytes = ToBytes(Head(args), StdSize(Head(codes))) \o @]

\* the values of struct.Struct.unpack(bs), for Len(bs) = StructSize(codes)
RECURSIVE UnpackValues(_, _)
UnpackValues(codes, bs) ==
    IF codes = <<>> THEN <<>>
    ELSE LET n == StdSize(Head(codes))
         IN  <<FromBytes(SubSeq(bs, 1, n))>> \o UnpackValues(Tail(codes), SubSeq(bs, n + 1, Len(bs)))

\* struct.Struct.unpack(bs): the values, or err = "struct.error" for a buffer
\* of another size than the format's
StructUnpack(codes, bs) ==
    IF Len(bs) # StructSize(codes) THEN [err |-> "struct.error", values |-> <<>>]
    ELSE [err |-> "ok", values |-> UnpackValues(codes, bs)]

\* Message.serialize(instance): the payload bytes, or the error raised in err
serialize(mt, instance) ==
    LET packed == [i \in 1..Len(mt.parameters) |-> Pack(mt.parameters[i], instance.values[i])]
        struct_args == Concat([i \in 1..Len(packed) |-> packed[i].standard])
        special_args == Concat([i \in 1..Len(packed) |-> packed[i].special])  \* byte blocks
        header == StructPack(compile_parameters(mt), struct_args)
    IN  IF \E i \in 1..Len(packed) : packed[i].err # "ok"
        THEN [err |-> "ValueError", bytes |-> <<>>]
        ELSE [header EXCEPT !.bytes = @ \o Concat(special_args)]

-----------------------------------------------------------------------------
(* The registry the connections of this model are built from: three message *)
(* types that between them have an empty payload, plain and multi-value     *)
(* fields, a capped and an uncapped text field, and an id above 255.        *)

NativeLongSizes == {4, 8}

\* the registry's text fields use 'B' and 'H', whose size every build agrees on
AnyBuild == CHOOSE nl \in NativeLongSizes : TRUE

P_UINT8 == Parameter("B")
P_UNICODE16 == UnicodeParameter("H", NumZero, AnyBuild)

M_PING == Message(1, "Ping", <<>>)
M_MOVE == Message(2, "Move", <<P_UINT8, MultiParameter(<<"B", "B">>, None), P_UINT8>>)
M_CHAT == Message(300, "Chat", <<UnicodeParameter("B", NumFromInt(2), AnyBuild), P_UNICODE16>>)

COMMANDS == <<M_PING, M_MOVE, M_CHAT>>

\* {m.message_id: m for m in message_types}
message_types == [id \in {COMMANDS[i].message_id : i \in 1..Len(COMMANDS)} |->
                    COMMANDS[CHOOSE i \in 1..Len(COMMANDS) : COMMANDS[i].message_id = id]]

\* self.id_format.size of the readers and writers built from COMMANDS
IdSize == StdSize(StructReaderInit({NumFromInt(id) : id \in DOMAIN message_types}, None))

\* Message.__call__(**kw): the namedtuple (message_id, *values)
Instance(mt, values) == [message_id |-> mt.message_id, values |-> values]

Instances == { Instance(M_PING, <<>>),
               Instance(M_MOVE, <<7, <<1, 2>>, 0>>),
               Instance(M_CHAT, <<<<233>>, <<97>>>>),
               Instance(M_CHAT, <<<<>>, <<>>>>) }

\* StructWriter.send(message): the bytes written by the two sendall calls, or
\* the error raised before anything is written
send(message) ==
    IF message.message_id \notin DOMAIN message_types THEN [err |-> "KeyError", bytes |-> <<>>]
    ELSE LET packed == serialize(message_types[message.message_id], message)
         IN  [packed EXCEPT !.bytes = ToBytes(message.message_id, IdSize) \o @]

-----------------------------------------------------------------------------
(* StructReader: __next__, Message.deserialize and the parameters' parse,   *)
(* run up to the next blocking sock.recv. A reader record holds the         *)
(* position of its handle_messages thread (pc), the locals of the get_bytes *)
(* call it is in, and the locals of deserialize.                            *)

CHUNK == 4096

\* an exception leaves __next__ and, handle_messages catching nothing, ends the thread
raise(r, exc) == [r EXCEPT !.pc = "error", !.outcome = exc]

RECURSIVE get_bytes(_, _, _), resume(_, _), deserialize_fields(_)

\* get_bytes(total): returns at once when total is 0, else enters the recv loop
get_bytes(r, purpose, total) ==
    LET r1 == [r EXCEPT !.purpose = purpose, !.total = total, !.received = 0, !.parts = <<>>]
    IN  IF r1.received < total THEN [r1 EXCEPT !.pc = "recv"] ELSE resume(r1, <<>>)

\* (mutant) an id the registry does not have is skipped and the next id read
lookup_skip(r) ==
    IF The(r.mid) \notin DOMAIN message_types
    THEN get_bytes([r EXCEPT !.fstart = r.rpos, !.mid = None], "id", IdSize)
    ELSE get_bytes(r, "header", StructSize(compile_parameters(message_types[The(r.mid)])))

\* self.message_types[message_id].deserialize(self): the lookup of the decoded
\* id, then the read of the fixed-size header
lookup(r) ==
    IF The(r.mid) \notin DOMAIN message_types THEN raise(r, "KeyError")
    ELSE get_bytes(r, "header", StructSize(compile_parameters(message_types[The(r.mid)])))

\* (mutant) the text is read without the test against max_length
UnicodeParameter_parse_unchecked(r, p) ==
    IF r.args = <<>> THEN raise(r, "RuntimeError")
    ELSE get_bytes([r EXCEPT !.args = Tail(@), !.size = Some(Head(r.args))], "text", Head(r.args))

\* UnicodeParameter.parse: the length from the unpacked header, the test
\* against max_length, then the read of the text bytes
UnicodeParameter_parse(r, p) ==
    IF r.args = <<>> THEN raise(r, "RuntimeError")
    ELSE LET size == Head(r.args)
             r1 == [r EXCEPT !.args = Tail(@), !.size = Some(size)]
         IN  IF NumGt(NumFromInt(size), p.max_length) THEN raise(r1, "ValueError")
             ELSE get_bytes(r1, "text", size)

\* the generator of Message.deserialize: p.parse(reader, struct_args) for each
\* parameter from r.idx on, then self.factory(self.message_id, *values)
deserialize_fields(r) ==
    LET mt == message_types[The(r.mid)]
    IN  IF r.idx > Len(mt.parameters)
        THEN [r EXCEPT !.pc = "callback", !.message = Some(Instance(mt, r.vals)),
                       !.nframes = @ + 1]
        ELSE LET p == mt.parameters[r.idx]
             IN  CASE p.kind = "plain" ->
                        IF r.args = <<>> THEN raise(r, "RuntimeError")
                        ELSE deserialize_fields([r EXCEPT !.vals = Append(@, Head(r.args)),
                                                          !.args = Tail(@), !.idx = @ + 1])
                   [] p.kind = "multi" ->
                        LET n == Min(p.size, Len(r.args))
                        IN  deserialize_fields([r EXCEPT !.vals = Append(@, SubSeq(r.args, 1, n)),
                                                         !.args = SubSeq(@, n + 1, Len(@)),
                                                         !.idx = @ + 1])
                   [] p.kind = "unicode" -> UnicodeParameter_parse(r, p)

\* what follows the return of get_bytes(bs), by the call it returns to:
\* __next__ (the id), Message.deserialize (the header), UnicodeParameter.parse (a text)
resume(r, bs) ==
    CASE r.purpose = "id" ->
            IF Len(bs) # IdSize THEN raise(r, "struct.error")
            ELSE lookup([r EXCEPT !.mid = Some(FromBytes(bs))])
      [] r.purpose = "header" ->
            LET u == StructUnpack(compile_parameters(message_types[The(r.mid)]), bs)
            IN  IF u.err # "ok" THEN raise(r, u.err)
                ELSE deserialize_fields([r EXCEPT !.args = u.values, !.idx = 1, !.vals = <<>>])
      [] r.purpose = "text" ->
            LET d == Decode(bs)
            IN  IF d.err # "ok" THEN raise(r, d.err)
                ELSE deserialize_fields([r EXCEPT !.vals = Append(@, d.text), !.idx = @ + 1,
                                                  !.size = None])

\* (mutant) the empty part is a transport error wherever it arrives
stop_iteration_error(r) == raise(r, "socket.error")

\* raise StopIteration in get_bytes: inside the generator of deserialize (a
\* text read) it becomes RuntimeError (PEP 479); from __next__ or from the
\* header read it ends the for loop of handle_messages, which closes the reader
stop_iteration(r) ==
    IF r.purpose = "text" THEN raise(r, "RuntimeError")
    ELSE [r EXCEPT !.pc = "done", !.outcome = "StopIteration", !.closed = TRUE]

\* (mutant) get_bytes returns after its first part
get_bytes_once(r) == resume(r, r.parts)

\* the while loop of get_bytes after a part: another recv, or the return
get_bytes_loop(r) == IF r.received < r.total THEN r ELSE resume(r, r.parts)

\* one pass of the while loop of get_bytes, with the part sock.recv returned
get_bytes_part(r, part) ==
    IF part = <<>>
    THEN LET r1 == [r EXCEPT !.eof = TRUE]
         IN  IF r.received # 0 THEN raise(r1, "socket.error") ELSE stop_iteration(r1)
    ELSE get_bytes_loop([r EXCEPT !.parts = @ \o part, !.received = @ + Len(part),
                                  !.rpos = @ + Len(part),
                                  !.split = @ \/ Len(part) < r.total])

\* handle_messages calls next(self.reader): __next__ asks for the id
next(r) ==
    get_bytes([r EXCEPT !.fstart = r.rpos, !.mid = None, !.message = None, !.size = None],
              "id", IdSize)

\* Client.start(): the reader is built and handle_messages runs in its thread.
\* mode is the socket's way of returning data, on_message the kind of callback.
start(mode, on_message) ==
    next([pc |-> "recv", outcome |-> "running", closed |-> FALSE, eof |-> FALSE,
          rpos |-> 0, fstart |-> 0, purpose |-> "id", total |-> 0, received |-> 0,
          parts |-> <<>>, mid |-> None, size |-> None, args |-> <<>>, idx |-> 0, vals |-> <<>>,
          message |-> None, nframes |-> 0, split |-> FALSE, mode |-> mode, on_message |-> on_message])

-----------------------------------------------------------------------------
(* The peer, the sockets and the threads.                                   *)

MaxMsgs == 2
MaxListeners == 2

Callbacks == {"L1", "L2"}

\* frames a peer built from another registry may write: an id no message
\* has, a Chat whose first text length (3) is above the field's cap (2), and
\* a Chat whose first text is not UTF-8
RawFrames == { ToBytes(9, IdSize) \o <<0>>,
               ToBytes(300, IdSize) \o <<3, 0, 0, 97, 97, 97>>,
               ToBytes(300, IdSize) \o <<1, 0, 0, 255>> }

\* what the peer's writer does with each instance
Sent == [m \in Instances |-> send(m)]

Write(kind, m, bs) ==
    /\ ~peerClosed
    /\ Len(frames) < MaxMsgs
    /\ sent' = sent \o bs
    /\ frames' = Append(frames, [kind |-> kind, m |-> m, bytes |-> bs])

\* the peer's StructWriter.send(m)
PeerSend(m) ==
    /\ Sent[m].err = "ok"
    /\ Write("msg", Some(m), Sent[m].bytes)
    /\ UNCHANGED <<clients, manager, server, plat, pure, peerClosed, readers, listeners, calls>>

\* a peer with another registry writes a frame this registry cannot decode
PeerSendRaw(bs) ==
    /\ Write("raw", None, bs)
    /\ UNCHANGED <<clients, manager, server, plat, pure, peerClosed, readers, listeners, calls>>

\* the peer's connection breaks after the first k bytes of a frame
PeerCut(m, k) ==
    /\ Sent[m].err = "ok"
    /\ k \in 1..(Len(Sent[m].bytes) - 1)
    /\ Write("cut", Some(m), SubSeq(Sent[m].bytes, 1, k))
    /\ peerClosed' = TRUE
    /\ UNCHANGED <<clients, manager, server, plat, pure, readers, listeners, calls>>

\* the peer closes its writer
PeerClose ==
    /\ ~peerClosed
    /\ peerClosed' = TRUE
    /\ UNCHANGED <<clients, manager, server, plat, pure, sent, frames, readers, listeners, calls>>

\* The local socket of a connection is "open", "closed" (sock.close() was
\* called and no call is in progress on it: every later call raises OSError),
\* or "closing": sock.close() was called while the receive loop was blocked
\* in sock.recv. Whether that call is abandoned is the platform's choice; on
\* Linux it stays blocked and still returns what the peer sends next.
sock_close(s, blocked) ==
    IF s = "open" THEN (IF blocked THEN {"closing", "closed"} ELSE {"closed"}) ELSE {s}

\* the blocked sock.recv has returned; the next call finds the socket closed
recv_returned(s) == IF s = "closing" THEN "closed" ELSE s

\* sock.recv(min(total - received, chunk)) in get_bytes returns k bytes, k = 0
\* being the empty part of a closed stream, and get_bytes runs on from there.
\* A "whole" socket returns all that was asked for in one piece.
Recv(c, k) ==
    LET r == readers[c]
        want == Min(r.total - r.received, CHUNK)
        avail == Len(sent) - r.rpos
    IN  /\ r.pc = "recv"
        /\ clients[c].sock # "closed"
        /\ k \in 0..Min(want, avail)
        /\ IF k = 0 THEN avail = 0 /\ peerClosed
           ELSE r.mode = "whole" => k = Min(want, avail) /\ (avail >= want \/ peerClosed)
        /\ readers' = [readers EXCEPT ![c] = get_bytes_part(r, SubSeq(sent, r.rpos + 1, r.rpos + k))]
        /\ clients' = [clients EXCEPT ![c].sock = IF readers'[c].closed THEN "closed" ELSE recv_returned(@)]
        /\ UNCHANGED <<manager, server, plat, pure, sent, peerClosed, frames, listeners, calls>>

\* (mutant) the listeners of the name are invoked last to first
fanout_reversed(c, m) ==
    [i \in 1..Len(listeners[c]) |-> [listener |-> Len(listeners[c]) + 1 - i, m |-> m]]

\* (mutant) only the first listener of the name is invoked
fanout_first(c, m) == [i \in 1..Min(1, Len(listeners[c])) |-> [listener |-> i, m |-> m]]

\* ConnectionManager._handle_message(name, message): the listeners of the
\* name, in list order
fanout(c, m) == [i \in 1..Len(listeners[c]) |-> [listener |-> i, m |-> m]]

\* self.on_message(message) in handle_messages, then the next next(self.reader)
OnMessage(c) ==
    LET r == readers[c]
        m == The(r.message)
    IN  /\ r.pc = "callback"
        /\ calls' = [calls EXCEPT ![c] = @ \o (IF r.on_message = "fanout" THEN fanout(c, m)
                                               ELSE <<[listener |-> 0, m |-> m]>>)]
        /\ readers' = [readers EXCEPT ![c] = next(r)]
        /\ UNCHANGED <<clients, manager, server, plat, pure, sent, peerClosed, frames, listeners>>

\* the number of messages handle_messages has passed to on_message
Handled(r) == IF r.pc = "callback" THEN r.nframes - 1 ELSE r.nframes

\* how many messages had been handed to the name's listeners so far
Since(name) == IF name \in DOMAIN readers THEN Handled(readers[name]) ELSE Len(dispatched[name])

\* self.listeners[name].append(on_message); since records how many messages
\* the name had handled before the registration
registered(ls, name, cb) == [ls EXCEPT ![name] = Append(@, [cb |-> cb, since |-> Since(name)])]

\* ConnectionManager.register_listener(name, on_message), for a name that has
\* a listener list (for another name it raises KeyError and changes nothing)
register_listener(c, cb) ==
    /\ Len(listeners[c]) < MaxListeners
    /\ listeners' = registered(listeners, c, cb)
    /\ UNCHANGED <<clients, manager, server, plat, pure, sent, peerClosed, frames,
                   readers, calls>>

InitNet(conns) ==
    /\ plat = AnyBuild
    /\ pure = [op |-> "none"]
    /\ sent = <<>>
    /\ peerClosed = FALSE
    /\ frames = <<>>
    /\ calls = [c \in conns |-> <<>>]
    /\ clients = [c \in conns |-> [sock |-> "open"]]
    /\ connections = <<>>
    /\ dispatched = <<>>
    /\ result = [op |-> "none"]
    /\ player_map = <<>>
    /\ queue_lock = None
    /\ handlers = <<>>
    /\ socks = <<>>
    /\ senders = <<>>
    /\ iterating = <<>>

\* one Client whose on_message is the caller's callback, started
Init ==
    /\ InitNet({"conn"})
    /\ readers = [c \in {"conn"} |-> start("chunked", "callback")]
    /\ listeners = [c \in {"conn"} |-> <<>>]

Next ==
    \/ \E m \in Instances : PeerSend(m)
    \/ \E bs \in RawFrames : PeerSendRaw(bs)
    \/ \E m \in Instances : \E k \in 1..Len(Sent[m].bytes) : PeerCut(m, k)
    \/ PeerClose
    \/ \E c \in DOMAIN readers : \E k \in 0..readers[c].total : Recv(c, k)
    \/ \E c \in DOMAIN readers : OnMessage(c)

Spec == Init /\ [][Next]_vars

-----------------------------------------------------------------------------
(* What the stream holds, for stating the properties.                       *)

\* the number of leading writes that are whole frames of the registry
RECURSIVE WholeUpTo(_)
WholeUpTo(n) == IF n < Len(frames) /\ frames[n + 1].kind = "msg" THEN WholeUpTo(n + 1) ELSE n

CleanCount == WholeUpTo(0)

\* the instances of those frames
CleanMsgs == [i \in 1..CleanCount |-> The(frames[i].m)]

\* the offset in the stream at which write i ends
RECURSIVE FrameEnd(_)
FrameEnd(i) == IF i = 0 THEN 0 ELSE FrameEnd(i - 1) + Len(frames[i].bytes)

\* the invocations of a Client's own callback for these messages
Direct(msgs) == [i \in 1..Len(msgs) |-> [listener |-> 0, m |-> msgs[i]]]

Terminal(r) == r.pc \in {"done", "error"}

\* the encoded bytes of the text values among vals, the values of the first
\* fields of mt
RECURSIVE TextBytes(_, _)
TextBytes(mt, vals) ==
    IF vals = <<>> THEN 0
    ELSE LET n == Len(vals)
         IN  TextBytes(mt, SubSeq(vals, 1, n - 1))
             + (IF mt.parameters[n].kind = "unicode" THEN Len(Encode(vals[n])) ELSE 0)

-----------------------------------------------------------------------------
(* The claims about the reader and the receive loop.                        *)

\* C2: whenever the stream ends after at least one byte of the current frame
\* was read, next() raises the transport error (socket.error), never the
\* clean end of stream and never another error.
C2_TruncatedFrame ==
    \A c \in DOMAIN readers :
        LET r == readers[c]
        IN  (r.eof /\ r.rpos > r.fstart) => (r.pc = "error" /\ r.outcome = "socket.error")

\* C3: when the stream ends at a frame boundary (the empty part arrives before
\* any byte of the next id), the iteration stops normally, handle_messages
\* ends without error and closes the reader, and the callback has been invoked
\* once for every frame of the stream, in order.
C3_CleanEndOfStream ==
    \A c \in DOMAIN readers :
        LET r == readers[c]
        IN  (r.eof /\ r.rpos = r.fstart) =>
                /\ r.pc = "done" /\ r.outcome = "StopIteration" /\ r.closed
                /\ CleanCount = Len(frames)
                /\ r.rpos = Len(sent)
                /\ calls[c] = Direct(CleanMsgs)

C3_Witness ==
    \E c \in DOMAIN readers :
        /\ readers[c].eof /\ readers[c].rpos = readers[c].fstart
        /\ Len(calls[c]) >= 2

\* C19: when handle_messages has ended, on the clean end of the stream or on
\* an error of the frame (truncated frame, unknown id, length exceeded), the
\* reader is closed; an error has been propagated as the loop's outcome; and
\* the callback has been invoked for the frames decoded before it and for
\* nothing else.
C19_LoopTeardown ==
    \A c \in DOMAIN readers :
        LET r == readers[c]
        IN  Terminal(r) =>
                /\ r.closed
                /\ r.pc = "error" => r.outcome \notin {"running", "StopIteration"}
                /\ Len(calls[c]) = r.nframes

\* C8: when the length decoded for a text field exceeds the field's maximum,
\* UnicodeParameter.parse fails with ValueError (LengthExceeded) and no byte of
\* that text has been read: the reader's position is the end of the header
\* plus the texts of the earlier fields.
C8_LengthCheckedBeforeRead ==
    \A c \in DOMAIN readers :
        LET r == readers[c]
            mt == message_types[The(r.mid)]
        IN  (r.size # None /\ NumGt(NumFromInt(The(r.size)), mt.parameters[r.idx].max_length)) =>
                /\ r.pc = "error" /\ r.outcome = "ValueError"
                /\ r.rpos = r.fstart + IdSize + StructSize(compile_parameters(mt))
                              + TextBytes(mt, r.vals)

C8_Witness ==
    \E c \in DOMAIN readers :
        /\ readers[c].outcome = "ValueError"
        /\ readers[c].size # None
        /\ readers[c].rpos < Len(sent)

\* write u is a frame whose id the registry does not have, met on a frame boundary
UnknownAt(u) ==
    /\ frames[u].kind = "raw"
    /\ FromBytes(SubSeq(frames[u].bytes, 1, IdSize)) \notin DOMAIN message_types
    /\ CleanCount = u - 1

\* C9: when the id decoded by next() has no entry in the registry, next()
\* fails with KeyError (UnknownMessageType) having read nothing after the id,
\* the receive loop is over, and the callback is invoked neither for that
\* frame nor for anything after it in the stream.
C9_UnknownId ==
    \A c \in DOMAIN readers : \A u \in 1..Len(frames) :
        LET r == readers[c]
            at == FrameEnd(u - 1) + IdSize
        IN  UnknownAt(u) =>
                /\ r.rpos <= at
                /\ r.rpos = at => (r.pc = "error" /\ r.outcome = "KeyError")
                /\ r.nframes <= u - 1
                /\ Len(calls[c]) <= u - 1

C9_Witness ==
    \E c \in DOMAIN readers : \E u \in 1..Len(frames) :
        /\ UnknownAt(u)
        /\ u >= 2
        /\ readers[c].outcome = "KeyError"
        /\ Len(sent) > FrameEnd(u - 1) + IdSize

-----------------------------------------------------------------------------
(* Two connections whose peers write the same bytes: one socket returns     *)
(* data in any non-empty pieces, the other returns each read in one piece.  *)

InitPartial ==
    /\ InitNet({"chunked", "whole"})
    /\ readers = [c \in {"chunked", "whole"} |-> start(c, "callback")]
    /\ listeners = [c \in {"chunked", "whole"} |-> <<>>]

NextPartial ==
    \/ \E m \in Instances : PeerSend(m)
    \/ PeerClose
    \/ \E c \in DOMAIN readers : \E k \in 0..readers[c].total : Recv(c, k)
    \/ \E c \in DOMAIN readers : OnMessage(c)

SpecPartial == InitPartial /\ [][NextPartial]_vars

IsPrefix(s, t) == Len(s) <= Len(t) /\ SubSeq(t, 1, Len(s)) = s

\* C4: on a stream of whole frames, the reader whose socket returns the bytes
\* in small pieces decodes the same messages, in the same order and with the
\* same end, as the reader whose socket returns every read in one piece.
C4_PartialReads ==
    LET a == readers["chunked"]
        b == readers["whole"]
    IN  /\ IsPrefix(calls["chunked"], calls["whole"]) \/ IsPrefix(calls["whole"], calls["chunked"])
        /\ (a.pc = "callback" /\ b.pc = "callback" /\ a.nframes = b.nframes) => a.message = b.message
        /\ a.outcome \in {"running", "StopIteration"}
        /\ (Terminal(a) /\ Terminal(b)) =>
                /\ calls["chunked"] = calls["whole"]
                /\ a.outcome = b.outcome
                /\ a.rpos = b.rpos

C4_Witness ==
    /\ Terminal(readers["chunked"]) /\ Terminal(readers["whole"])
    /\ readers["chunked"].split /\ ~readers["whole"].split
    /\ Len(calls["chunked"]) >= 2

-----------------------------------------------------------------------------
(* One connection opened through the ConnectionManager: its on_message is   *)
(* the manager's fanout to the listeners registered for the name.           *)

InitFanout ==
    /\ InitNet({"conn"})
    /\ readers = [c \in {"conn"} |-> start("chunked", "fanout")]
    /\ listeners = [c \in {"conn"} |-> <<>>]

NextFanout ==
    \/ \E m \in Instances : PeerSend(m)
    \/ \E bs \in RawFrames : PeerSendRaw(bs)
    \/ PeerClose
    \/ \E c \in DOMAIN readers, cb \in Callbacks : register_listener(c, cb)
    \/ \E c \in DOMAIN readers : \E k \in 0..readers[c].total : Recv(c, k)
    \/ \E c \in DOMAIN readers : OnMessage(c)

SpecFanout == InitFanout /\ [][NextFanout]_vars

\* the messages listener i of the connection has been invoked with
DeliveredTo(c, i) ==
    LET mine == SelectSeq(calls[c], LAMBDA e : e.listener = i)
    IN  [j \in 1..Len(mine) |-> mine[j].m]

\* C10: each listener of a connection has been invoked with exactly the
\* messages whose frames arrived since its registration, in wire order,
\* none skipped, repeated or out of order; and while the next frame is being
\* decoded every listener has already been invoked with all earlier messages.
C10_WireOrder ==
    \A c \in DOMAIN readers :
        LET r == readers[c]
            n == Handled(r)
        IN  /\ r.nframes <= CleanCount
            /\ \A j \in 1..Len(calls[c]) : calls[c][j].listener \in 1..Len(listeners[c])
            /\ \A i \in 1..Len(listeners[c]) :
                   DeliveredTo(c, i) = SubSeq(CleanMsgs, listeners[c][i].since + 1, n)

C10_Witness ==
    \E c \in DOMAIN readers :
        /\ Len(listeners[c]) >= 2
        /\ Len(DeliveredTo(c, 1)) >= 2
        /\ Len(DeliveredTo(c, 2)) >= 1
        /\ Len(DeliveredTo(c, 2)) < Len(DeliveredTo(c, 1))
        /\ readers[c].pc = "recv"

-----------------------------------------------------------------------------
(* JSON framing (coregent/net/json.py). A JSON value is a tagged record, the *)
(* bytes of a stream a sequence of one-character strings (the values of     *)
(* this model are ASCII, so str.encode() maps characters to bytes one to    *)
(* one).                                                                    *)

JNull == [t |-> "null"]
JNum(n) == [t |-> "num", n |-> n]
JStr(chars) == [t |-> "str", chars |-> chars]
JList(items) == [t |-> "list", items |-> items]
JObj(pairs) == [t |-> "obj", pairs |-> pairs]

Digits == <<"0", "1", "2", "3", "4", "5", "6", "7", "8", "9">>

\* the decimal digits of a natural number
RECURSIVE DumpNat(_)
DumpNat(n) == IF n < 10 THEN <<Digits[n + 1]>> ELSE Append(DumpNat(n \div 10), Digits[(n % 10) + 1])

\* a string literal: the quote and the backslash are escaped
RECURSIVE DumpChars(_)
DumpChars(chars) ==
    IF chars = <<>> THEN <<>>
    ELSE (IF Head(chars) \in {"\"", "\\"} THEN <<"\\", Head(chars)>> ELSE <<Head(chars)>>)
         \o DumpChars(Tail(chars))

\* json.dumps(message) with its default separators ', ' and ': '
RECURSIVE dumps(_), DumpItems(_), DumpPairs(_)
dumps(v) ==
    CASE v.t = "null" -> <<"n", "u", "l", "l">>
      [] v.t = "num" -> DumpNat(v.n)
      [] v.t = "str" -> <<"\"">> \o DumpChars(v.chars) \o <<"\"">>
      [] v.t = "list" -> <<"[">> \o DumpItems(v.items) \o <<"]">>
      [] v.t = "obj" -> <<"{">> \o DumpPairs(v.pairs) \o <<"}">>

DumpItems(items) ==
    IF items = <<>> THEN <<>>
    ELSE dumps(Head(items)) \o (IF Len(items) > 1 THEN <<",", " ">> ELSE <<>>) \o DumpItems(Tail(items))

DumpPairs(pairs) ==
    IF pairs = <<>> THEN <<>>
    ELSE dumps(JStr(Head(pairs).key)) \o <<":", " ">> \o dumps(Head(pairs).val)
         \o (IF Len(pairs) > 1 THEN <<",", " ">> ELSE <<>>) \o DumpPairs(Tail(pairs))

\* A JSON document read back (RFC 8259): a failed parse has ok = FALSE, a
\* successful one the value and the rest of the text.
NoParse == [ok |-> FALSE]

RECURSIVE SkipWs(_)
SkipWs(s) == IF s # <<>> /\ Head(s) = " " THEN SkipWs(Tail(s)) ELSE s

DigitOf(c) == CHOOSE d \in 0..9 : Digits[d + 1] = c
IsDigit(c) == \E d \in 0..9 : Digits[d + 1] = c

RECURSIVE ParseNat(_, _)
ParseNat(s, acc) ==
    IF s # <<>> /\ IsDigit(Head(s)) THEN ParseNat(Tail(s), 10 * acc + DigitOf(Head(s)))
    ELSE [ok |-> TRUE, v |-> JNum(acc), rest |-> s]

\* the characters of a string literal, after its opening quote
RECURSIVE ParseChars(_, _)
ParseChars(s, acc) ==
    IF s = <<>> THEN NoParse
    ELSE CASE Head(s) = "\"" -> [ok |-> TRUE, v |-> JStr(acc), rest |-> Tail(s)]
           [] Head(s) = "\\" ->
                IF Len(s) >= 2 /\ s[2] \in {"\"", "\\"}
                THEN ParseChars(SubSeq(s, 3, Len(s)), Append(acc, s[2]))
                ELSE NoParse
           [] OTHER -> ParseChars(Tail(s), Append(acc, Head(s)))

RECURSIVE ParseValue(_), ParseItems(_, _), ParsePairs(_, _)
ParseValue(text) ==
    LET s == SkipWs(text)
    IN  IF s = <<>> THEN NoParse
        ELSE CASE Head(s) = "\"" -> ParseChars(Tail(s), <<>>)
               [] Head(s) = "[" ->
                    LET s1 == SkipWs(Tail(s))
                    IN  IF s1 # <<>> /\ Head(s1) = "]"
                        THEN [ok |-> TRUE, v |-> JList(<<>>), rest |-> Tail(s1)]
                        ELSE ParseItems(s1, <<>>)
               [] Head(s) = "{" ->
                    LET s1 == SkipWs(Tail(s))
                    IN  IF s1 # <<>> /\ Head(s1) = "}"
                        THEN [ok |-> TRUE, v |-> JObj(<<>>), rest |-> Tail(s1)]
                        ELSE ParsePairs(s1, <<>>)
               [] Head(s) = "n" ->
                    IF Len(s) >= 4 /\ SubSeq(s, 1, 4) = <<"n", "u", "l", "l">>
                    THEN [ok |-> TRUE, v |-> JNull, rest |-> SubSeq(s, 5, Len(s))]
                    ELSE NoParse
               [] IsDigit(Head(s)) -> ParseNat(s, 0)
               [] OTHER -> NoParse

\* the elements of an array, after its '[' or after a ','
ParseItems(s, acc) ==
    LET p == ParseValue(s)
    IN  IF ~p.ok THEN NoParse
        ELSE LET s1 == SkipWs(p.rest)
             IN  IF s1 = <<>> THEN NoParse
                 ELSE CASE Head(s1) = "," -> ParseItems(Tail(s1), Append(acc, p.v))
                        [] Head(s1) = "]" -> [ok |-> TRUE, v |-> JList(Append(acc, p.v)), rest |-> Tail(s1)]
                        [] OTHER -> NoParse

\* the members of an object, after its '{' or after a ','
ParsePairs(s, acc) ==
    LET k == ParseValue(s)
    IN  IF ~k.ok \/ k.v.t # "str" THEN NoParse
        ELSE LET s1 == SkipWs(k.rest)
             IN  IF s1 = <<>> \/ Head(s1) # ":" THEN NoParse
                 ELSE LET p == ParseValue(Tail(s1))
                      IN  IF ~p.ok THEN NoParse
                          ELSE LET s2 == SkipWs(p.rest)
                                   pairs == Append(acc, [key |-> k.v.chars, val |-> p.v])
                               IN  IF s2 = <<>> THEN NoParse
                                   ELSE CASE Head(s2) = "," -> ParsePairs(Tail(s2), pairs)
                                          [] Head(s2) = "}" -> [ok |-> TRUE, v |-> JObj(pairs), rest |-> Tail(s2)]
                                          [] OTHER -> NoParse

\* the whole text is one JSON document
loads(text) ==
    LET p == ParseValue(text)
    IN  IF p.ok /\ SkipWs(p.rest) = <<>> THEN [ok |-> TRUE, v |-> p.v] ELSE NoParse

\* the values the application sends: a number, a text holding the characters
\* of the envelope, a nested array, an object, null
JsonValues == { JNum(10),
                JStr(<<"]", ",", "\"">>),
                JList(<<JNum(1), JStr(<<"a">>)>>),
                JObj(<<[key |-> <<"m">>, val |-> JList(<<>>)]>>),
                JNull }

-----------------------------------------------------------------------------
(* A Client whose writer is a JSONWriter (the factories Client defaults to). *)
(* Its record holds the socket, the writer's prefix, the bytes written to   *)
(* the socket (out), the values whose send returned (values), whether       *)
(* close() returned (wclosed), and the receive loop's position (pc).        *)

MaxSends == 2

\* Client.start(): JSONWriter(connection) and JSONReader(connection), and the
\* handle_messages thread started; name is the name its on_message fans out to
Client_start(name) ==
    [name |-> name, sock |-> "open", prefix |-> <<"[">>, out |-> <<>>, values |-> <<>>,
     wclosed |-> FALSE, pc |-> "recv"]

\* JSONWriter.send(message): sendall raises on a closed socket, before the
\* prefix is switched
JSONWriter_send(cl, v) ==
    IF cl.sock # "open" THEN [exc |-> "OSError", cl |-> cl]
    ELSE [exc |-> "none", cl |-> [cl EXCEPT !.out = @ \o cl.prefix \o dumps(v),
                                            !.prefix = <<",">>,
                                            !.values = Append(@, v)]]

\* writer.close(), by the writer's class: JSONWriter.close() writes ']' (and
\* raises on a closed socket) and closes the socket; StructWriter.close() closes
\* the socket. blocked: the receive loop is inside sock.recv. The outcomes.
writer_close(cl, blocked) ==
    IF "prefix" \in DOMAIN cl
    THEN IF cl.sock # "open" THEN {[exc |-> "OSError", cl |-> cl]}
         ELSE {[exc |-> "none", cl |-> [cl EXCEPT !.out = Append(@, "]"), !.sock = s,
                                                  !.wclosed = TRUE]]
               : s \in sock_close(cl.sock, blocked)}
    ELSE {[exc |-> "none", cl |-> [cl EXCEPT !.sock = s]] : s \in sock_close(cl.sock, blocked)}

\* the receive loop of the connection is inside (or about to enter) sock.recv
Blocked(c) == IF c \in DOMAIN readers THEN readers[c].pc = "recv" ELSE clients[c].pc = "recv"

\* Client.send_message(message)
Client_send_message(c, v) ==
    LET o == JSONWriter_send(clients[c], v)
    IN  /\ Len(clients[c].values) < MaxSends
        /\ clients' = [clients EXCEPT ![c] = o.cl]
        /\ result' = [op |-> "Client.send_message", exc |-> o.exc]
        /\ UNCHANGED <<plat, pure, sent, peerClosed, frames, readers, listeners, calls,
                       connections, dispatched, server>>

\* Client.close()
Client_close(c) ==
    \E o \in writer_close(clients[c], Blocked(c)) :
        /\ clients' = [clients EXCEPT ![c] = o.cl]
        /\ result' = [op |-> "Client.close", exc |-> o.exc]
        /\ UNCHANGED <<plat, pure, sent, peerClosed, frames, readers, listeners, calls,
                       connections, dispatched, server>>

\* one started Client and the calls of its owner
InitJson ==
    /\ plat = AnyBuild
    /\ pure = [op |-> "none"]
    /\ sent = <<>>
    /\ peerClosed = FALSE
    /\ frames = <<>>
    /\ readers = <<>>
    /\ listeners = <<>>
    /\ calls = <<>>
    /\ clients = [c \in {"conn"} |-> Client_start("conn")]
    /\ connections = <<>>
    /\ dispatched = <<>>
    /\ result = [op |-> "none"]
    /\ player_map = <<>>
    /\ queue_lock = None
    /\ handlers = <<>>
    /\ socks = <<>>
    /\ senders = <<>>
    /\ iterating = <<>>

NextJson ==
    \/ \E c \in DOMAIN clients, v \in JsonValues : Client_send_message(c, v)
    \/ \E c \in DOMAIN clients : Client_close(c)

SpecJson == InitJson /\ [][NextJson]_vars

\* the encoded values, separated by ','
RECURSIVE Separated(_)
Separated(values) ==
    IF values = <<>> THEN <<>>
    ELSE dumps(Head(values)) \o (IF Len(values) > 1 THEN <<",">> ELSE <<>>) \o Separated(Tail(values))

\* C14: for every number of sends, zero included, followed by close, the
\* bytes the JSONWriter has written form exactly one JSON array whose elements
\* are the sent values in send order; before close, after at least one send,
\* the bytes written are '[' followed by the encoded values separated by ','.
C14_JsonEnvelope ==
    \A c \in DOMAIN clients :
        LET cl == clients[c]
        IN  /\ cl.wclosed => loads(cl.out) = [ok |-> TRUE, v |-> JList(cl.values)]
            /\ (~cl.wclosed /\ cl.values # <<>>) => cl.out = <<"[">> \o Separated(cl.values)

-----------------------------------------------------------------------------
(* Client.close() while the receive loop of the connection runs.            *)

\* sock.recv in get_bytes on a socket that close() has closed: OSError (bad
\* file descriptor) leaves the loop
RecvClosed(c) ==
    /\ readers[c].pc = "recv"
    /\ clients[c].sock = "closed"
    /\ readers' = [readers EXCEPT ![c] = raise(@, "OSError")]
    /\ UNCHANGED <<clients, manager, server, plat, pure, sent, peerClosed, frames, listeners, calls>>

\* the steps of the thread that runs handle_messages
LoopNext ==
    \/ \E c \in DOMAIN readers : \E k \in 0..readers[c].total : Recv(c, k)
    \/ \E c \in DOMAIN readers : OnMessage(c)
    \/ \E c \in DOMAIN readers : RecvClosed(c)

NextClose ==
    \/ \E m \in Instances : PeerSend(m)
    \/ PeerClose
    \/ \E c \in DOMAIN clients : Client_close(c)
    \/ LoopNext

\* the thread of the receive loop runs whenever it can; the peer and the
\* owner of the Client act when they wish
SpecClose == Init /\ [][NextClose]_vars /\ WF_vars(LoopNext)

\* C20: after Client.close() the socket is closed and the receive loop
\* eventually terminates, by the end of the stream or by an error, whatever
\* the peer does; and once it has terminated no message is delivered.
C20_CloseUnblocks ==
    /\ [](result.op = "Client.close" => clients["conn"].sock # "open")
    /\ (result.op = "Client.close") ~> Terminal(readers["conn"])
    /\ [][Terminal(readers["conn"]) => calls' = calls]_vars

-----------------------------------------------------------------------------
(* The ConnectionManager (coregent/net/client.py). Its connections are      *)
(* Clients with the default JSON reader and writer, numbered in the order   *)
(* they were opened; the transport delivers in order and ends by the peer's *)
(* close.                                                                   *)

MaxConns == 2

Names == {"x", "y"}

\* the number of messages the manager's connections have received
RECURSIVE Inbound(_)
Inbound(names) ==
    IF names = {} THEN 0
    ELSE LET n == CHOOSE n \in names : TRUE
         IN  Len(dispatched[n]) + Inbound(names \ {n})

\* what the peers send to the connections of the manager: the values
\* alternate, so that consecutive messages differ
InboundValue == IF Inbound(Names) % 2 = 0 THEN JNum(10) ELSE JNull

\* what the reader's next() meets on the stream: an element of the array, the
\* array's closing ']' (the peer's writer closed), or the end of the bytes
\* with the array left open (the connection was cut)
Arrivals == {[item |-> InboundValue], [end |-> "closed"], [end |-> "cut"]}

\* the number of values the application has sent through the connections
RECURSIVE Outbound(_)
Outbound(n) == IF n = 0 THEN 0 ELSE Outbound(n - 1) + Len(clients[n].values)

\* ConnectionManager._handle_message(name, message), as the on_message of a
\* connection opened for the name invokes it
_handle_message(name, m) == fanout(name, m)

\* Client.handle_messages over a JSONReader, one pass of its loop: sock.recv
\* on a closed socket raises OSError; a parsed element of the array is passed
\* to on_message; the end of the array ends the loop and the reader is
\* closed; a stream that ends inside the array makes the parser raise.
handle_messages(c, got) ==
    LET cl == clients[c]
    IN  /\ cl.pc = "recv"
        /\ IF cl.sock = "closed"
           THEN /\ clients' = [clients EXCEPT ![c].pc = "error"]
                /\ UNCHANGED <<calls, dispatched>>
           ELSE IF "item" \in DOMAIN got
           THEN /\ Inbound(Names) < MaxMsgs
                /\ calls' = [calls EXCEPT ![cl.name] = @ \o _handle_message(cl.name, got.item)]
                /\ dispatched' = [dispatched EXCEPT ![cl.name] = Append(@, [conn |-> c, m |-> got.item])]
                /\ clients' = [clients EXCEPT ![c].sock = recv_returned(@)]
           ELSE IF got.end = "closed"
           THEN /\ clients' = [clients EXCEPT ![c].pc = "done", ![c].sock = "closed"]
                /\ UNCHANGED <<calls, dispatched>>
           ELSE /\ clients' = [clients EXCEPT ![c].pc = "error", ![c].sock = recv_returned(@)]
                /\ UNCHANGED <<calls, dispatched>>
        /\ UNCHANGED <<plat, pure, sent, peerClosed, frames, readers, listeners, connections,
                       result, server>>

\* dict.setdefault(name, []) and dict[name] = value, on a map kept as a function
setdefault(map, name) ==
    IF name \in DOMAIN map THEN map
    ELSE [n \in DOMAIN map \cup {name} |-> IF n = name THEN <<>> ELSE map[n]]

put(map, name, value) == [n \in DOMAIN map \cup {name} |-> IF n = name THEN value ELSE map[n]]

\* dict.pop(name): the map without the name
pop(map, name) == [n \in DOMAIN map \ {name} |-> map[n]]

\* ConnectionManager.open_connection(name, conn_info, on_message): reachable
\* is whether the connect of new_conn.start() succeeds. Where old_conn.close()
\* raises, the new connection is running but the map is not updated.
open_connection(name, on_message, reachable) ==
    LET ls == setdefault(listeners, name)
        new_conn == Len(clients) + 1
        call == [op |-> "open_connection", name |-> name]
    IN  /\ Len(clients) < MaxConns
        /\ on_message # None => Len(ls[name]) < MaxListeners
        /\ listeners' = IF on_message # None THEN registered(ls, name, The(on_message)) ELSE ls
        /\ IF ~reachable
           THEN /\ result' = call @@ [exc |-> "ConnectionRefusedError"]
                /\ UNCHANGED <<clients, connections>>
           ELSE IF name \notin DOMAIN connections
           THEN /\ clients' = Append(clients, Client_start(name))
                /\ connections' = put(connections, name, new_conn)
                /\ result' = call @@ [exc |-> "none"]
           ELSE LET old_conn == connections[name]
                IN  \E o \in writer_close(clients[old_conn], Blocked(old_conn)) :
                        IF o.exc # "none"
                        THEN /\ clients' = Append(clients, Client_start(name))
                             /\ result' = call @@ [exc |-> o.exc]
                             /\ UNCHANGED connections
                        ELSE /\ clients' = Append([clients EXCEPT ![old_conn] = o.cl],
                                                  Client_start(name))
                             /\ connections' = put(connections, name, new_conn)
                             /\ result' = call @@ [exc |-> "none"]
        /\ UNCHANGED <<plat, pure, sent, peerClosed, frames, readers, calls, dispatched, server>>

\* (mutant) the connection is closed but left in the map
close_connection_keep(name) ==
    LET call == [op |-> "close_connection", name |-> name]
    IN  /\ name \in DOMAIN connections
        /\ \E o \in writer_close(clients[connections[name]], Blocked(connections[name])) :
              /\ clients' = [clients EXCEPT ![connections[name]] = o.cl]
              /\ result' = call @@ [exc |-> o.exc]
        /\ UNCHANGED <<plat, pure, sent, peerClosed, frames, readers, listeners, calls,
                       connections, dispatched, server>>

\* ConnectionManager.close_connection(name): self.connections.pop(name).close();
\* the pop raises KeyError for a name without a connection, and the entry is
\* gone before close() runs, whether or not close() raises
close_connection(name) ==
    LET call == [op |-> "close_connection", name |-> name]
    IN  /\ IF name \notin DOMAIN connections
           THEN /\ result' = call @@ [exc |-> "KeyError"]
                /\ UNCHANGED <<clients, connections>>
           ELSE \E o \in writer_close(clients[connections[name]], Blocked(connections[name])) :
                    /\ clients' = [clients EXCEPT ![connections[name]] = o.cl]
                    /\ connections' = pop(connections, name)
                    /\ result' = call @@ [exc |-> o.exc]
        /\ UNCHANGED <<plat, pure, sent, peerClosed, frames, readers, listeners, calls,
                       dispatched, server>>

\* ConnectionManager.send_message(name, message): self.connections[name] raises
\* KeyError for a name without a connection
send_message(name, m) ==
    LET call == [op |-> "send_message", name |-> name]
    IN  /\ IF name \notin DOMAIN connections
           THEN /\ result' = call @@ [exc |-> "KeyError"]
                /\ UNCHANGED clients
           ELSE LET o == JSONWriter_send(clients[connections[name]], m)
                IN  /\ Outbound(Len(clients)) < MaxSends
                    /\ clients' = [clients EXCEPT ![connections[name]] = o.cl]
                    /\ result' = call @@ [exc |-> o.exc]
        /\ UNCHANGED <<plat, pure, sent, peerClosed, frames, readers, listeners, calls,
                       connections, dispatched, server>>

\* a ConnectionManager() and the calls of the application on it
InitManager ==
    /\ plat = AnyBuild
    /\ pure = [op |-> "none"]
    /\ sent = <<>>
    /\ peerClosed = FALSE
    /\ frames = <<>>
    /\ readers = <<>>
    /\ listeners = <<>>
    /\ calls = [name \in Names |-> <<>>]
    /\ clients = <<>>
    /\ connections = <<>>
    /\ dispatched = [name \in Names |-> <<>>]
    /\ result = [op |-> "none"]
    /\ player_map = <<>>
    /\ queue_lock = None
    /\ handlers = <<>>
    /\ socks = <<>>
    /\ senders = <<>>
    /\ iterating = <<>>

NextManager ==
    \/ \E name \in Names, on_message \in {None, Some("L1")}, reachable \in BOOLEAN :
          open_connection(name, on_message, reachable)
    \/ \E name \in Names : close_connection(name)
    \/ \E name \in DOMAIN listeners : register_listener(name, "L1")
    \/ \E name \in Names : send_message(name, JNull)
    \/ \E c \in DOMAIN clients, got \in Arrivals : handle_messages(c, got)

SpecManager == InitManager /\ [][NextManager]_vars

\* the number of listeners the name had when its j-th message was received
ListenersAt(name, j) ==
    IF name \in DOMAIN listeners
    THEN Cardinality({i \in 1..Len(listeners[name]) : listeners[name][i].since < j})
    ELSE 0

\* the invocations the first j messages received for the name call for: for
\* each message in turn, one per listener registered by then, first to last
RECURSIVE Invocations(_, _)
Invocations(name, j) ==
    IF j = 0 THEN <<>>
    ELSE Invocations(name, j - 1)
             \o [i \in 1..ListenersAt(name, j) |-> [listener |-> i, m |-> dispatched[name][j].m]]

\* C11: for every message received on a connection opened under a name,
\* every listener registered for that name by then (through open_connection
\* or register_listener) has been invoked with that message exactly once, in
\* registration order, and nothing else has been invoked.
C11_Fanout ==
    \A name \in Names : calls[name] = Invocations(name, Len(dispatched[name]))

\* two messages received under a name whose second listener was registered
\* between them
C11_Witness ==
    \E name \in Names :
        /\ name \in DOMAIN listeners
        /\ Len(dispatched[name]) = 2
        /\ Len(listeners[name]) = 2
        /\ listeners[name][2].since = 1
        /\ Len(calls[name]) = 3

\* the connections opened under the name, in the order they were opened
OpenedAs(name) == {c \in DOMAIN clients : clients[c].name = name}

\* the greatest of a non-empty set of numbers
Latest(cs) == CHOOSE c \in cs : \A d \in cs : d <= c

\* C12: after any sequence of open_connection calls for a name, the
\* connection stored under the name is the most recently opened one, every
\* connection opened for the name before it has been closed, and the
\* listeners registered for the name are all still registered, in the order
\* of their registration (every listener that was ever invoked is still in
\* the list, and the list is ordered by time of registration).
C12_Replacement ==
    \A name \in Names :
        /\ name \in DOMAIN connections =>
              /\ connections[name] = Latest(OpenedAs(name))
              /\ \A c \in OpenedAs(name) \ {connections[name]} : clients[c].sock # "open"
        /\ name \in DOMAIN listeners =>
              /\ \A k \in 1..Len(calls[name]) : calls[name][k].listener <= Len(listeners[name])
              /\ \A i \in 1..(Len(listeners[name]) - 1) :
                    listeners[name][i].since <= listeners[name][i + 1].since

\* C13: a close_connection(name) on a stored connection closes it and removes
\* it from the map, and leaves every listener list, every other entry of the
\* map and every other connection as they were; a later open_connection(name)
\* keeps the listeners the name had; and a send_message(name, m) for a name
\* with no stored connection fails with KeyError and sends nothing.
C13_CloseConnection ==
    [][\A name \in Names :
          /\ (name \in DOMAIN connections /\ close_connection(name)) =>
                /\ clients'[connections[name]].sock # "open"
                /\ name \notin DOMAIN connections'
                /\ \A n \in DOMAIN connections \ {name} :
                      n \in DOMAIN connections' /\ connections'[n] = connections[n]
                /\ \A c \in DOMAIN clients \ {connections[name]} : clients'[c] = clients[c]
                /\ listeners' = listeners
          /\ (name \in DOMAIN listeners /\ \E r \in BOOLEAN : open_connection(name, None, r)) =>
                listeners' = listeners
          /\ (name \notin DOMAIN connections /\ send_message(name, JNull)) =>
                /\ result'.exc = "KeyError"
                /\ clients' = clients
      ]_vars

\* the only connection opened under a name that has listeners was closed by
\* close_connection while another name's connection stays stored and open,
\* and a send_message to the name has failed
C13_Witness ==
    \E name \in Names, other \in Names :
        /\ name \notin DOMAIN connections
        /\ Cardinality(OpenedAs(name)) = 1
        /\ \A c \in OpenedAs(name) : clients[c].wclosed
        /\ name \in DOMAIN listeners
        /\ listeners[name] # <<>>
        /\ other \in DOMAIN connections
        /\ clients[connections[other]].sock = "open"
        /\ result = [op |-> "send_message", name |-> name, exc |-> "KeyError"]

-----------------------------------------------------------------------------
(* The chat server of examples/net_struct.py. Each accepted connection is   *)
(* handled by its own thread; a step of a thread is one access to the       *)
(* shared player_map, one blocking read or one send. The clients' messages  *)
(* arrive complete and in order, and a send to a registered writer succeeds. *)

MaxPlayers == 3

\* the usernames the clients choose from, in the order they are first used
Usernames == <<"a", "b", "c">>

\* the messages of the catalogue, by their fields (the time, and the text of
\* the welcome, are left out)
Welcome == [kind |-> "Welcome"]
ServerChat(source, msg) == [kind |-> "ServerChat", source |-> source, msg |-> msg]
ClientChat(msg) == [kind |-> "ClientChat", msg |-> msg]
Connect(user) == [kind |-> "Connect", user |-> user]
Disconnect(user) == [kind |-> "Disconnect", user |-> user]

\* list(self.player_map): the usernames in insertion order
Players == [i \in 1..Len(player_map) |-> player_map[i].user]

\* username in self.player_map
Registered(user) == \E i \in 1..Len(player_map) : player_map[i].user = user

\* self.player_map[player]: the connection whose writer is stored
WriterOf(player) == player_map[CHOOSE i \in 1..Len(player_map) : player_map[i].user = player].writer

\* self.player_map[username] = writer: a new key goes last, a key already
\* there keeps its place and gets the new writer
Inserted(username, writer) ==
    IF Registered(username)
    THEN [i \in 1..Len(player_map) |->
             IF player_map[i].user = username THEN [user |-> username, writer |-> writer]
             ELSE player_map[i]]
    ELSE Append(player_map, [user |-> username, writer |-> writer])

\* self.player_map.pop(username)
Popped(username) == SelectSeq(player_map, LAMBDA e : e.user # username)

\* the usernames clients have given so far, and those a client may give next:
\* one of them, or the first one not given yet
Given == {The(handlers[h].username) : h \in {g \in DOMAIN handlers : handlers[g].username # None}}

Choices ==
    Given \cup {Usernames[j] : j \in {i \in 1..Len(Usernames) :
                                         /\ Usernames[i] \notin Given
                                         /\ \A k \in 1..(i - 1) : Usernames[k] \in Given}}

\* what next(reader) meets on a client's stream: a message, or its end
ClientSends == {[msg |-> ClientChat("hi")], [msg |-> Connect("z")], [end |-> "closed"]}

\* writer.send(message) by the thread of connection h on its own writer;
\* out holds what authenticate_user has written to the connection
WriterSend(hs, h, message) == [hs EXCEPT ![h].out = Append(@, message)]

\* StructServer.run: accept() and start_new_thread(self.handle_connection)
run ==
    /\ Len(handlers) < MaxPlayers
    /\ handlers' = Append(handlers, [pc |-> "accepted", username |-> None, out |-> <<>>,
                                     sock |-> "open", exc |-> "none",
                                     message |-> None, snapshot |-> <<>>, idx |-> 0,
                                     sentto |-> {}, after |-> "none"])
    /\ UNCHANGED <<player_map, queue_lock>>
    /\ UNCHANGED <<plat, pure, sent, peerClosed, frames, readers, listeners, calls, clients, manager, steps>>

\* authenticate_user up to next(reader): the welcome and the prompt are sent
authenticate_user(h) ==
    /\ handlers[h].pc = "accepted"
    /\ handlers' = [WriterSend(WriterSend(handlers, h, Welcome), h,
                         ServerChat("server", "Send me your username"))
                       EXCEPT ![h].pc = "auth"]
    /\ UNCHANGED <<player_map, queue_lock>>
    /\ UNCHANGED <<plat, pure, sent, peerClosed, frames, readers, listeners, calls, clients, manager, steps>>

\* (mutant) the username is accepted without looking it up in the map
username_msg_unchecked(h, got) ==
    /\ handlers[h].pc = "auth"
    /\ IF "end" \in DOMAIN got
       THEN handlers' = [handlers EXCEPT ![h].pc = "dead", ![h].exc = "StopIteration"]
       ELSE IF got.msg.kind # "ClientChat"
       THEN handlers' = [handlers EXCEPT ![h].pc = "dead", ![h].exc = "AssertionError"]
       ELSE \E username \in Choices :
               handlers' = [handlers EXCEPT ![h].pc = "queue", ![h].username = Some(username)]
    /\ UNCHANGED <<player_map, queue_lock>>
    /\ UNCHANGED <<plat, pure, sent, peerClosed, frames, readers, listeners, calls, clients, manager, steps>>

\* authenticate_user from next(reader) on: the end of the stream raises
\* StopIteration out of next(), a message that is not a ClientChat fails the
\* assert, and either ends the thread; a taken username is answered with the
\* rejection notice and None is returned
username_msg(h, got) ==
    /\ handlers[h].pc = "auth"
    /\ IF "end" \in DOMAIN got
       THEN handlers' = [handlers EXCEPT ![h].pc = "dead", ![h].exc = "StopIteration"]
       ELSE IF got.msg.kind # "ClientChat"
       THEN handlers' = [handlers EXCEPT ![h].pc = "dead", ![h].exc = "AssertionError"]
       ELSE \E username \in Choices :
               IF Registered(username)
               THEN handlers' = [WriterSend(handlers, h, ServerChat("server", "Username taken"))
                                    EXCEPT ![h].pc = "rejected"]
               ELSE handlers' = [handlers EXCEPT ![h].pc = "queue", ![h].username = Some(username)]
    /\ UNCHANGED <<player_map, queue_lock>>
    /\ UNCHANGED <<plat, pure, sent, peerClosed, frames, readers, listeners, calls, clients, manager, steps>>

\* handle_connection after authenticate_user returned None: reader.close(),
\* writer.close(), return
handle_connection_cleanup(h) ==
    /\ handlers[h].pc = "rejected"
    /\ handlers' = [handlers EXCEPT ![h].pc = "done", ![h].sock = "closed"]
    /\ UNCHANGED <<player_map, queue_lock>>
    /\ UNCHANGED <<plat, pure, sent, peerClosed, frames, readers, listeners, calls, clients, manager, steps>>

\* queue_user: with self.queue_lock: self.player_map[username] = writer
queue_user(h) ==
    /\ handlers[h].pc = "queue"
    /\ queue_lock = None
    /\ queue_lock' = Some(h)
    /\ player_map' = Inserted(The(handlers[h].username), h)
    /\ handlers' = [handlers EXCEPT ![h].pc = "release"]
    /\ UNCHANGED <<plat, pure, sent, peerClosed, frames, readers, listeners, calls, clients, manager, steps>>

\* (mutant) the join notice is broadcast inside the with block: the lock is
\* still held when player_connected(username) is called
player_connected_locked(h) ==
    /\ handlers[h].pc = "release"
    /\ handlers' = [handlers EXCEPT ![h].pc = "call",
                                    ![h].message = Some(Connect(The(handlers[h].username))),
                                    ![h].after = "loop"]
    /\ UNCHANGED <<player_map, queue_lock>>
    /\ UNCHANGED <<plat, pure, sent, peerClosed, frames, readers, listeners, calls, clients, manager, steps>>

\* queue_user: the lock is released, and player_connected(username) is called
player_connected(h) ==
    /\ handlers[h].pc = "release"
    /\ queue_lock' = None
    /\ handlers' = [handlers EXCEPT ![h].pc = "call",
                                    ![h].message = Some(Connect(The(handlers[h].username))),
                                    ![h].after = "loop"]
    /\ UNCHANGED player_map
    /\ UNCHANGED <<plat, pure, sent, peerClosed, frames, readers, listeners, calls, clients, manager, steps>>

\* where a thread goes when an exception leaves forward_message: to the
\* finally of run_user_mainloop from inside its loop, out of the thread otherwise
Raised(hd, exc) ==
    IF hd.message # None /\ The(hd.message).kind = "ServerChat"
    THEN [hd EXCEPT !.pc = "finally", !.exc = exc]
    ELSE [hd EXCEPT !.pc = "dead", !.exc = exc]

\* where a thread goes when forward_message returns, its locals gone
Returned(hd) ==
    [hd EXCEPT !.pc = hd.after, !.message = None, !.snapshot = <<>>, !.idx = 0, !.sentto = {}]

\* forward_message: list(self.player_map), of which the players other than
\* username will be sent to
forward_message(h) ==
    LET hd == handlers[h]
        others == SelectSeq(Players, LAMBDA p : p # The(hd.username))
        begun == [hd EXCEPT !.snapshot = others, !.idx = 1, !.sentto = {}, !.pc = "forward"]
    IN  /\ hd.pc = "call"
        /\ handlers' = [handlers EXCEPT ![h] = IF others = <<>> THEN Returned(begun) ELSE begun]
        /\ UNCHANGED <<player_map, queue_lock>>
        /\ UNCHANGED <<plat, pure, sent, peerClosed, frames, readers, listeners, calls, clients, manager, steps>>

\* StructServer.send_message(player, message), for the next player of the
\* list forward_message iterates: self.player_map[player] raises KeyError for
\* a player that has left since the list was made, and the exception leaves
\* forward_message; otherwise the message is written to the player's writer,
\* which sentto records
StructServer_send_message(h) ==
    LET hd == handlers[h]
        player == hd.snapshot[hd.idx]
        last == hd.idx = Len(hd.snapshot)
        moved == [hd EXCEPT !.idx = @ + 1, !.sentto = @ \cup {player}]
    IN  /\ hd.pc = "forward"
        /\ IF ~Registered(player)
           THEN handlers' = [handlers EXCEPT ![h] = Raised(hd, "KeyError")]
           ELSE handlers' = [handlers EXCEPT ![h] = IF last THEN Returned(moved) ELSE moved]
        /\ UNCHANGED <<player_map, queue_lock>>
        /\ UNCHANGED <<plat, pure, sent, peerClosed, frames, readers, listeners, calls, clients, manager, steps>>

\* run_user_mainloop, one pass of its loop: player_message(username, message)
\* forwards message.msg as a ServerChat from the player, which a message
\* without a msg field fails with AttributeError; the end of the stream ends
\* the loop
run_user_mainloop(h, got) ==
    LET hd == handlers[h]
    IN  /\ hd.pc = "loop"
        /\ IF "end" \in DOMAIN got
           THEN handlers' = [handlers EXCEPT ![h].pc = "finally"]
           ELSE IF "msg" \notin DOMAIN got.msg
           THEN handlers' = [handlers EXCEPT ![h].pc = "finally", ![h].exc = "AttributeError"]
           ELSE handlers' = [handlers EXCEPT
                                   ![h].pc = "call",
                                   ![h].message = Some(ServerChat(The(hd.username), got.msg.msg)),
                                   ![h].after = "loop"]
        /\ UNCHANGED <<player_map, queue_lock>>
        /\ UNCHANGED <<plat, pure, sent, peerClosed, frames, readers, listeners, calls, clients, manager, steps>>

\* the finally of run_user_mainloop: self.player_map.pop(username), which
\* raises KeyError when the username is not in the map, then
\* player_disconnected(username); the thread ends when that returns
player_disconnected(h) ==
    LET hd == handlers[h]
        username == The(hd.username)
    IN  /\ hd.pc = "finally"
        /\ IF ~Registered(username)
           THEN /\ handlers' = [handlers EXCEPT ![h].pc = "dead", ![h].exc = "KeyError"]
                /\ UNCHANGED player_map
           ELSE /\ player_map' = Popped(username)
                /\ handlers' = [handlers EXCEPT
                                   ![h].pc = "call",
                                   ![h].message = Some(Disconnect(username)),
                                   ![h].snapshot = <<>>, ![h].idx = 0, ![h].sentto = {},
                                   ![h].after = IF hd.exc = "none" THEN "done" ELSE "dead"]
        /\ UNCHANGED queue_lock
        /\ UNCHANGED <<plat, pure, sent, peerClosed, frames, readers, listeners, calls, clients, manager, steps>>

\* StructServer(hostname, port)
InitServer ==
    /\ plat = AnyBuild
    /\ pure = [op |-> "none"]
    /\ sent = <<>>
    /\ peerClosed = FALSE
    /\ frames = <<>>
    /\ readers = <<>>
    /\ listeners = <<>>
    /\ calls = <<>>
    /\ clients = <<>>
    /\ connections = <<>>
    /\ dispatched = <<>>
    /\ result = [op |-> "none"]
    /\ player_map = <<>>
    /\ queue_lock = None
    /\ handlers = <<>>
    /\ socks = <<>>
    /\ senders = <<>>
    /\ iterating = <<>>

NextServer ==
    \/ run
    \/ \E h \in DOMAIN handlers : authenticate_user(h)
    \/ \E h \in DOMAIN handlers, got \in ClientSends : username_msg(h, got)
    \/ \E h \in DOMAIN handlers : handle_connection_cleanup(h)
    \/ \E h \in DOMAIN handlers : queue_user(h)
    \/ \E h \in DOMAIN handlers : player_connected(h)
    \/ \E h \in DOMAIN handlers : forward_message(h)
    \/ \E h \in DOMAIN handlers : StructServer_send_message(h)
    \/ \E h \in DOMAIN handlers, got \in ClientSends : run_user_mainloop(h, got)
    \/ \E h \in DOMAIN handlers : player_disconnected(h)

SpecServer == InitServer /\ [][NextServer]_vars

\* the connection was refused its username: authenticate_user returned None
\* after the rejection notice, or handle_connection has returned after that
Rejected(hd) == hd.pc = "rejected" \/ (hd.pc = "done" /\ hd.username = None)

\* the connection's writer is stored in the player map
Stored(map, h) == \E i \in 1..Len(map) : map[i].writer = h

\* C15: a connection is admitted only with a username that is not in the
\* player map; one that names a username in the map is sent the rejection
\* notice while the map, and so the holder's entry and writer, stay as they
\* are; a rejected connection is never in the map, never starts a broadcast
\* (no join notice, no departure notice), and the only thing that happens to
\* it afterwards is that its reader and writer are closed.
C15_DuplicateUsername ==
    [][\A h \in DOMAIN handlers :
          LET hd == handlers[h]
              hn == handlers'[h]
          IN  /\ (hd.pc = "auth" /\ hn.pc = "queue") => ~Registered(The(hn.username))
              /\ (hd.pc = "auth" /\ hn.pc = "rejected") =>
                    /\ hn.out = Append(hd.out, ServerChat("server", "Username taken"))
                    /\ player_map' = player_map
              /\ Rejected(hn) =>
                    /\ ~Stored(player_map', h)
                    /\ hn.message = None /\ hn.after = "none" /\ hn.snapshot = <<>>
              /\ Rejected(hd) =>
                    /\ Rejected(hn)
                    /\ hn.out = hd.out
                    /\ hn.pc = "done" => hn.sock = "closed"
      ]_vars

\* a connection was rejected and torn down while the holder of the username
\* it named is registered with its own writer and reading
C15_Witness ==
    \E h \in DOMAIN handlers, g \in DOMAIN handlers :
        /\ handlers[h].pc = "done"
        /\ handlers[h].username = None
        /\ handlers[h].sock = "closed"
        /\ handlers[g].pc = "loop"
        /\ Registered(The(handlers[g].username))
        /\ WriterOf(The(handlers[g].username)) = g

\* the thread of the connection is inside forward_message, or about to call it
Forwarding(hd) == hd.pc \in {"call", "forward"}

\* no other connection has given the username of this one
OnlyHolder(h) == \A g \in DOMAIN handlers \ {h} : handlers[g].username # handlers[h].username

\* every player of the list forward_message made that is still registered
\* (the same connection: no other has given its username) has been sent the
\* message
SentToAll(hd) ==
    \A i \in 1..Len(hd.snapshot) :
        (Registered(hd.snapshot[i]) /\ OnlyHolder(WriterOf(hd.snapshot[i]))) =>
            hd.snapshot[i] \in hd.sentto

\* C16: a message read from an Active player's connection is forwarded as a
\* ServerChat whose source is the sender's username, never to the sender, and
\* once the forwarding is over, failed sends included, every other player
\* that was registered when it began and still is has been sent it.
C16_Rebroadcast ==
    \A h \in DOMAIN handlers :
        LET hd == handlers[h]
        IN  (hd.message # None /\ The(hd.message).kind = "ServerChat") =>
                /\ The(hd.message).source = The(hd.username)
                /\ The(hd.username) \notin hd.sentto
                /\ ~Forwarding(hd) => SentToAll(hd)

\* the thread of the connection has ended after its read loop had started
\* (an exception out of the join broadcast ends it before the loop)
LoopExited(hd) ==
    /\ hd.pc \in {"done", "dead"}
    /\ hd.username # None
    /\ ~(hd.message # None /\ The(hd.message).kind = "Connect")

\* C17: once the thread of a player whose read loop has exited is over, by
\* the end of the stream or by an error, the player's entry is out of the
\* player map and the Disconnect notice for the username has been sent to
\* every player still registered (for a username no other connection gave).
C17_Departure ==
    \A h \in DOMAIN handlers :
        LET hd == handlers[h]
        IN  (LoopExited(hd) /\ OnlyHolder(h)) =>
                /\ ~Stored(player_map, h)
                /\ hd.after \in {"done", "dead"}
                /\ SentToAll(hd)

\* the state of a connection in the server's state machine
State(hd) ==
    CASE hd.pc = "accepted" -> "Accepted"
      [] hd.pc \in {"auth", "queue"} -> "Authenticating"
      [] hd.pc = "rejected" -> "Rejected"
      [] hd.pc \in {"release", "call", "forward", "loop", "finally"} -> "Active"
      [] hd.pc \in {"done", "dead"} -> "Disconnected"

\* the moves of the state machine
Moves ==
    {<<"Accepted", "Authenticating">>, <<"Authenticating", "Active">>,
     <<"Authenticating", "Rejected">>, <<"Active", "Disconnected">>,
     <<"Rejected", "Disconnected">>}

\* C18: a connection starts Accepted and moves only along Accepted ->
\* Authenticating -> Active -> Disconnected or Accepted -> Authenticating ->
\* Rejected -> Disconnected; its writer is in the player map only while it is
\* Active; and it becomes Active only with the username its one
\* authentication message gave, which was not in the map when it was read.
C18_StateMachine ==
    [][/\ \A h \in DOMAIN handlers' \ DOMAIN handlers : State(handlers'[h]) = "Accepted"
       /\ \A h \in DOMAIN handlers :
             LET hd == handlers[h]
                 hn == handlers'[h]
             IN  /\ State(hn) = State(hd) \/ <<State(hd), State(hn)>> \in Moves
                 /\ Stored(player_map', h) => State(hn) = "Active"
                 /\ (State(hd) # "Active" /\ State(hn) = "Active") =>
                       /\ hd.pc = "queue"
                       /\ hn.username = hd.username
                       /\ hd.username # None
      ]_vars

\* the connection threads that took the step
Stepped == {h \in DOMAIN handlers : handlers'[h] # handlers[h]}

\* C22: every step that changes the player map, the insertion on join and
\* the removal on loop exit alike, is taken by a thread that holds queue_lock
\* while it changes the map.
C22_PlayerMapLock ==
    [][player_map' # player_map =>
          \E h \in Stepped : queue_lock' = Some(h) \/ queue_lock = Some(h)
      ]_vars

\* where a thread's next step is an operation of its socket, or of another
\* player's: a send, a recv or a close
SocketPcs == {"accepted", "auth", "rejected", "forward", "loop"}

\* C23: the thread that holds queue_lock is between the insertion and the
\* release, and the only step it takes is the release, which sends and
\* receives nothing; no send, receive or close is made by a thread that
\* holds the lock, and the join notice is broadcast with the lock released.
C23_NoIOUnderLock ==
    [][/\ \A h \in DOMAIN handlers' :
             queue_lock' = Some(h) => handlers'[h].pc = "release"
       /\ \A h \in Stepped :
             /\ queue_lock = Some(h) =>
                   /\ queue_lock' = None
                   /\ handlers'[h].out = handlers[h].out
                   /\ handlers'[h].sentto = handlers[h].sentto
             /\ handlers[h].pc \in SocketPcs =>
                   queue_lock # Some(h) /\ queue_lock' # Some(h)
             /\ (handlers'[h].message # None /\ The(handlers'[h].message).kind = "Connect"
                 /\ handlers'[h].pc \in {"call", "forward"}) => queue_lock' # Some(h)
      ]_vars

\* a thread is sending the join notice while another thread holds the lock
C23_Witness ==
    \E h \in DOMAIN handlers, g \in DOMAIN handlers :
        /\ h # g
        /\ handlers[h].pc = "forward"
        /\ The(handlers[h].message).kind = "Connect"
        /\ queue_lock = Some(g)

\* C25: no two Active connections hold the same username, and each username
\* in the player map maps to the writer of the one connection that gave it.
C25_UniqueUsernames ==
    /\ \A h \in DOMAIN handlers, g \in DOMAIN handlers :
          (h # g /\ State(handlers[h]) = "Active" /\ State(handlers[g]) = "Active") =>
              handlers[h].username # handlers[g].username
    /\ \A i \in 1..Len(player_map) :
          /\ handlers[player_map[i].writer].username = Some(player_map[i].user)
          /\ \A g \in DOMAIN handlers \ {player_map[i].writer} :
                State(handlers[g]) = "Active" => handlers[g].username # Some(player_map[i].user)

\* C29: a player leaving the map while another player's thread is in
\* forward_message never makes that broadcast fail: a step of the broadcast
\* goes on with the next recipient or returns to where it was called from; it
\* never raises an error, so that the broadcasting player's read loop is
\* not ended and its entry is not taken out of the map by the loop's exit.
C29_DepartureHarmless ==
    [][\A h \in Stepped :
          handlers[h].pc = "forward" =>
              /\ handlers'[h].pc \in {"forward", handlers[h].after}
              /\ handlers'[h].exc = handlers[h].exc
      ]_vars

\* C30: once the handling of an accepted connection has ended, its socket is
\* closed and no entry of the player map refers to its writer.
C30_SocketRelease ==
    \A h \in DOMAIN handlers :
        handlers[h].pc \in {"done", "dead"} =>
            handlers[h].sock = "closed" /\ ~Stored(player_map, h)

\* C28: whenever the listeners of a name are invoked with a message, the
\* connection stored under the name in the manager is the connection that
\* received it: not one that is not stored yet, or that was replaced or
\* removed.
C28_CurrentConnection ==
    [][\A name \in DOMAIN dispatched :
          dispatched'[name] # dispatched[name] =>
              /\ name \in DOMAIN connections
              /\ connections[name] = dispatched'[name][Len(dispatched'[name])].conn
      ]_vars

-----------------------------------------------------------------------------
(* The server's writers at the grain of their socket calls. Three players   *)
(* are registered; the threads of two of them broadcast at the same time,   *)
(* the third stays in its read loop. Each send_message is a                  *)
(* StructWriter.send on the recipient's writer: the registry lookup and     *)
(* Message.serialize, then sock.sendall of the id, then sock.sendall of the *)
(* payload. A socket whose peer has stopped reading fills up, and sendall   *)
(* on it blocks.                                                             *)

MaxWrites == 2

\* the players whose threads broadcast
Broadcasters == {Usernames[1], Usernames[2]}

\* the player map of three registered players
Registry == [i \in 1..Len(Usernames) |-> [user |-> Usernames[i], writer |-> i]]

\* a message whose id is not in the writer's message_types
Unregistered == [message_id |-> 9, values |-> <<>>]

\* a Chat whose first text field is longer than its max_length of 2
Overlong == Instance(M_CHAT, <<<<97, 98, 99>>, <<>>>>)

\* the messages the threads are given to broadcast
Outgoing == {Instance(M_CHAT, <<<<233>>, <<97>>>>), Overlong, Unregistered}

\* the thread is not in forward_message
Idle == [pc |-> "idle", message |-> None, snapshot |-> <<>>, idx |-> 0,
         packed |-> <<>>, exc |-> "none", n |-> 0]

\* the player whose writer the thread is sending on
Recipient(sd) == sd.snapshot[sd.idx]

\* sock.sendall(bs) on the player's socket by thread t, in its n-th broadcast
sendall(p, t, n, part, bs) ==
    [socks EXCEPT ![p].chunks = Append(@, [by |-> t, n |-> n, part |-> part, bytes |-> bs])]

\* forward_message(username, message) in the thread of player t:
\* list(self.player_map), of which the players other than t will be sent to
Forward(t, message) ==
    LET sd == senders[t]
        others == SelectSeq(Players, LAMBDA p : p # t)
    IN  /\ sd.pc \in {"idle", "raised"}
        /\ sd.n < MaxWrites
        /\ senders' = [senders EXCEPT ![t] = [Idle EXCEPT !.pc = "send", !.message = Some(message),
                                                       !.snapshot = others, !.idx = 1,
                                                       !.n = sd.n + 1]]
        /\ UNCHANGED socks
        /\ UNCHANGED <<plat, pure, sent, peerClosed, frames, readers, listeners, calls, clients,
                       manager, player_map, queue_lock, handlers, iterating>>

\* (mutant) send writes the id before it looks the message type up and
\* serializes the message
StructWriter_send_id_first(t) ==
    LET sd == senders[t]
        message == The(sd.message)
        message_id == message.message_id
        written == sendall(Recipient(sd), t, sd.n, "id", ToBytes(message_id, IdSize))
    IN  /\ sd.pc = "send"
        /\ ~socks[Recipient(sd)].full
        /\ socks' = written
        /\ IF message_id \notin DOMAIN message_types
           THEN senders' = [senders EXCEPT ![t].pc = "raised", ![t].exc = "KeyError"]
           ELSE LET packed == serialize(message_types[message_id], message)
                IN  IF packed.err # "ok"
                    THEN senders' = [senders EXCEPT ![t].pc = "raised", ![t].exc = packed.err]
                    ELSE senders' = [senders EXCEPT ![t].pc = "packed", ![t].packed = packed.bytes]
        /\ UNCHANGED <<plat, pure, sent, peerClosed, frames, readers, listeners, calls, clients,
                       manager, player_map, queue_lock, handlers, iterating>>

\* StructWriter.send(message), up to its first sendall: message_id =
\* message[0]; packed = self.message_types[message_id].serialize(message).
\* KeyError for an id that is not registered and the error of serialize leave
\* send, send_message and forward_message
StructWriter_send(t) ==
    LET sd == senders[t]
        message == The(sd.message)
        message_id == message.message_id
    IN  /\ sd.pc = "send"
        /\ IF message_id \notin DOMAIN message_types
           THEN senders' = [senders EXCEPT ![t].pc = "raised", ![t].exc = "KeyError"]
           ELSE LET packed == serialize(message_types[message_id], message)
                IN  IF packed.err # "ok"
                    THEN senders' = [senders EXCEPT ![t].pc = "raised", ![t].exc = packed.err]
                    ELSE senders' = [senders EXCEPT ![t].pc = "id", ![t].packed = packed.bytes]
        /\ UNCHANGED socks
        /\ UNCHANGED <<plat, pure, sent, peerClosed, frames, readers, listeners, calls, clients,
                       manager, player_map, queue_lock, handlers, iterating>>

\* self.sock.sendall(self.id_format.pack(message_id)); it blocks while the
\* socket is full
sendall_id(t) ==
    LET sd == senders[t]
    IN  /\ sd.pc = "id"
        /\ ~socks[Recipient(sd)].full
        /\ socks' = sendall(Recipient(sd), t, sd.n, "id", ToBytes(The(sd.message).message_id, IdSize))
        /\ senders' = [senders EXCEPT ![t].pc = "packed"]
        /\ UNCHANGED <<plat, pure, sent, peerClosed, frames, readers, listeners, calls, clients,
                       manager, player_map, queue_lock, handlers, iterating>>

\* self.sock.sendall(packed); then forward_message goes on with the next
\* player of its list, or returns
sendall_packed(t) ==
    LET sd == senders[t]
    IN  /\ sd.pc = "packed"
        /\ ~socks[Recipient(sd)].full
        /\ socks' = sendall(Recipient(sd), t, sd.n, "packed", sd.packed)
        /\ senders' = [senders EXCEPT ![t] =
                          IF sd.idx = Len(sd.snapshot)
                          THEN [Idle EXCEPT !.n = sd.n]
                          ELSE [sd EXCEPT !.pc = "send", !.idx = sd.idx + 1, !.packed = <<>>]]
        /\ UNCHANGED <<plat, pure, sent, peerClosed, frames, readers, listeners, calls, clients,
                       manager, player_map, queue_lock, handlers, iterating>>

\* the player's client stops reading and the socket's buffers fill up: from
\* now on a sendall on it blocks
Stall(p) ==
    /\ ~socks[p].full
    /\ socks' = [socks EXCEPT ![p].full = TRUE]
    /\ UNCHANGED senders
    /\ UNCHANGED <<plat, pure, sent, peerClosed, frames, readers, listeners, calls, clients,
                   manager, player_map, queue_lock, handlers, iterating>>

InitWriters ==
    /\ plat = AnyBuild
    /\ pure = [op |-> "none"]
    /\ sent = <<>>
    /\ peerClosed = FALSE
    /\ frames = <<>>
    /\ readers = <<>>
    /\ listeners = <<>>
    /\ calls = <<>>
    /\ clients = <<>>
    /\ connections = <<>>
    /\ dispatched = <<>>
    /\ result = [op |-> "none"]
    /\ player_map = Registry
    /\ queue_lock = None
    /\ handlers = <<>>
    /\ socks = [p \in {Usernames[i] : i \in 1..Len(Usernames)} |-> [chunks |-> <<>>, full |-> FALSE]]
    /\ senders = [t \in Broadcasters |-> Idle]
    /\ iterating = <<>>

NextWriters ==
    \/ \E t \in Broadcasters, message \in Outgoing : Forward(t, message)
    \/ \E t \in Broadcasters : StructWriter_send(t)
    \/ \E t \in Broadcasters : sendall_id(t)
    \/ \E t \in Broadcasters : sendall_packed(t)
    \/ \E p \in DOMAIN socks : Stall(p)

SpecWriters == InitWriters /\ [][NextWriters]_vars

\* the chunks thread t has written to player p's socket in its n-th broadcast
Written(p, t, n) ==
    {i \in 1..Len(socks[p].chunks) : socks[p].chunks[i].by = t /\ socks[p].chunks[i].n = n}

\* C27: a send that fails, because the message id is not registered or
\* because a text field is longer than its maximum, has written no byte of
\* the message to the socket: the failing step leaves every socket as it was,
\* and the recipient's socket holds neither the id nor any payload of that
\* send.
C27_FailedSendWritesNothing ==
    [][\A t \in DOMAIN senders :
          (senders[t].pc = "send" /\ senders'[t].pc = "raised") =>
              /\ senders'[t].exc \in {"KeyError", "ValueError"}
              /\ socks' = socks
              /\ Written(Recipient(senders[t]), t, senders[t].n) = {}
      ]_vars

\* one thread's send has failed on an unregistered id and the other's on a
\* text that is too long, after a frame was written
C27_Witness ==
    \E t \in DOMAIN senders, u \in DOMAIN senders :
        /\ senders[t].pc = "raised" /\ senders[t].exc = "KeyError"
        /\ senders[u].pc = "raised" /\ senders[u].exc = "ValueError"
        /\ \E p \in DOMAIN socks : socks[p].chunks # <<>>

\* C26: what the threads have written to a player's socket is a
\* concatenation of whole frames: each id is followed at once by the payload
\* of the same send (the last id may still wait for its payload), and each
\* payload follows its own id.
C26_FrameAtomicity ==
    \A p \in DOMAIN socks :
        LET chunks == socks[p].chunks
        IN  \A i \in 1..Len(chunks) :
                /\ (chunks[i].part = "id" /\ i < Len(chunks)) =>
                      /\ chunks[i + 1].part = "packed"
                      /\ chunks[i + 1].by = chunks[i].by
                      /\ chunks[i + 1].n = chunks[i].n
                /\ chunks[i].part = "packed" =>
                      /\ i > 1
                      /\ chunks[i - 1].part = "id"
                      /\ chunks[i - 1].by = chunks[i].by

\* C21: a thread whose send is blocked on one player's socket, for good since
\* that player's client has stopped reading, holds up the delivery to no
\* other player: no player after that one in the list of the broadcast is
\* still waiting for the message.
C21_SendIsolation ==
    \A t \in DOMAIN senders :
        (senders[t].pc \in {"id", "packed"} /\ socks[Recipient(senders[t])].full) =>
            senders[t].idx = Len(senders[t].snapshot)

-----------------------------------------------------------------------------
(* The manager's listener map at the grain of the for loop of               *)
(* _handle_message: the receive loop of a name's connection invokes the     *)
(* listeners of the list one by one, while the application's thread calls   *)
(* open_connection and register_listener. A list iterator holds the list    *)
(* and an index, and its next() compares the index with the length the list *)
(* has at that moment.                                                       *)

\* open_connection, its statements on the listener map:
\* self.listeners.setdefault(name, []), and register_listener(name,
\* on_message) if on_message is given
open_connection_listeners(name, on_message) ==
    LET ls == setdefault(listeners, name)
    IN  /\ on_message # None => Len(ls[name]) < MaxListeners
        /\ on_message = None => name \notin DOMAIN listeners
        /\ listeners' = IF on_message # None THEN registered(ls, name, The(on_message)) ELSE ls
        /\ UNCHANGED <<plat, pure, sent, peerClosed, frames, readers, calls, clients, manager, server>>

\* _handle_message(name, message) is called by the receive loop of the name's
\* connection: the for statement takes an iterator of self.listeners[name]
_handle_message_iter(name, m) ==
    /\ name \in DOMAIN listeners
    /\ iterating[name] = None
    /\ Len(dispatched[name]) < MaxMsgs
    /\ iterating' = [iterating EXCEPT ![name] = Some([i |-> 0, m |-> m])]
    /\ dispatched' = [dispatched EXCEPT ![name] = Append(@, [conn |-> 1, m |-> m])]
    /\ UNCHANGED <<plat, pure, sent, peerClosed, frames, readers, listeners, calls, clients,
                   connections, result, player_map, queue_lock, handlers, writers>>

\* the iterator's next(): the listener at the index is invoked with the
\* message, or the index has reached the length of the list and the loop ends
_handle_message_next(name) ==
    LET it == The(iterating[name])
    IN  /\ iterating[name] # None
        /\ IF it.i < Len(listeners[name])
           THEN /\ calls' = [calls EXCEPT ![name] = Append(@, [listener |-> it.i + 1, m |-> it.m])]
                /\ iterating' = [iterating EXCEPT ![name] = Some([it EXCEPT !.i = it.i + 1])]
           ELSE /\ iterating' = [iterating EXCEPT ![name] = None]
                /\ UNCHANGED calls
        /\ UNCHANGED <<plat, pure, sent, peerClosed, frames, readers, listeners, clients,
                       manager, player_map, queue_lock, handlers, writers>>

InitIter ==
    /\ plat = AnyBuild
    /\ pure = [op |-> "none"]
    /\ sent = <<>>
    /\ peerClosed = FALSE
    /\ frames = <<>>
    /\ readers = <<>>
    /\ listeners = <<>>
    /\ calls = [name \in Names |-> <<>>]
    /\ clients = <<>>
    /\ connections = <<>>
    /\ dispatched = [name \in Names |-> <<>>]
    /\ result = [op |-> "none"]
    /\ player_map = <<>>
    /\ queue_lock = None
    /\ handlers = <<>>
    /\ socks = <<>>
    /\ senders = <<>>
    /\ iterating = [name \in Names |-> None]

NextIter ==
    \/ \E name \in DOMAIN listeners : register_listener(name, "L1")
    \/ \E name \in Names, on_message \in {None, Some("L1")} : open_connection_listeners(name, on_message)
    \/ \E name \in Names : _handle_message_iter(name, InboundValue)
    \/ \E name \in Names : _handle_message_next(name)

SpecIter == InitIter /\ [][NextIter]_vars

\* C24: every change of the listener map, the creation of a name's list and
\* an append to it, is made while no receive loop is iterating over the list
\* of that name, as a lock around the changes and the fanout would ensure.
C24_ListenerMapLock ==
    [][\A name \in Names :
          (iterating[name] # None /\ name \in DOMAIN listeners) =>
              (name \in DOMAIN listeners' /\ listeners'[name] = listeners[name])
      ]_vars

-----------------------------------------------------------------------------
(* The codec's functions, each behaviour one call on a boundary input, on    *)
(* either build.                                                            *)

\* numbers around the limits of the 8, 16, 32 and 64 bit widths
Boundaries ==
    {NumFromInt(n) : n \in {0, 1, 2, 3, 254, 255, 256, 257, 65534, 65535, 65536}}
        \cup {NumDec(Pow2Minus1(32)), Pow2Minus1(32), Pow2(32),
              NumDec(Pow2Minus1(64)), Pow2Minus1(64)}

IdSets == { {NumFromInt(0)}, {NumFromInt(1), NumFromInt(2), NumFromInt(300)},
            {NumFromInt(1), NumFromInt(255)}, {NumFromInt(3), NumFromInt(65535)},
            {NumFromInt(1), NumFromInt(1000), NumFromInt(1001)} }

Ceilings == {None} \cup {Some(n) : n \in Boundaries}

TextCodes == {"B", "H", "L", "Q"}

\* get_id_code(max_id)
CallGetIdCode(max_id) ==
    /\ pure.op = "none"
    /\ pure' = [op |-> "get_id_code", max_id |-> max_id, res |-> get_id_code(max_id)]
    /\ UNCHANGED <<clients, manager, server, plat, sent, peerClosed, frames, readers, listeners, calls>>

\* Client.start(): a reader and a writer built by the factories from the same
\* message list and max_id
CallStructInit(ids, max_id) ==
    /\ pure.op = "none"
    /\ pure' = [op |-> "struct_init", ids |-> ids, max_id |-> max_id,
                reader |-> StructReaderInit(ids, max_id),
                writer |-> StructWriterInit(ids, max_id)]
    /\ UNCHANGED <<clients, manager, server, plat, sent, peerClosed, frames, readers, listeners, calls>>

\* UnicodeParameter(code, cap).pack(value), for a value of size encoded bytes
CallPack(code, cap, size) ==
    LET p == UnicodeParameter(code, cap, plat)
    IN  /\ pure.op = "none"
        /\ p.kind = "unicode"
        /\ pure' = [op |-> "pack", code |-> code, cap |-> cap, size |-> size,
                    max_length |-> p.max_length, res |-> PackSize(p, size)]
        /\ UNCHANGED <<clients, manager, server, plat, sent, peerClosed, frames, readers, listeners, calls>>

\* Message(.., text=UnicodeParameter(code, cap)).serialize(instance), for a
\* text of size encoded bytes
CallSerialize(code, cap, size) ==
    LET p == UnicodeParameter(code, cap, plat)
    IN  /\ pure.op = "none"
        /\ p.kind = "unicode"
        /\ pure' = [op |-> "serialize", code |-> code, cap |-> cap, size |-> size,
                    max_length |-> p.max_length, res |-> SerializeSized(p, size)]
        /\ UNCHANGED <<clients, manager, server, plat, sent, peerClosed, frames, readers, listeners, calls>>

InitCodec ==
    /\ plat \in NativeLongSizes
    /\ pure = [op |-> "none"]
    /\ sent = <<>>
    /\ peerClosed = FALSE
    /\ frames = <<>>
    /\ readers = <<>>
    /\ listeners = <<>>
    /\ calls = <<>>
    /\ clients = <<>>
    /\ connections = <<>>
    /\ dispatched = <<>>
    /\ result = [op |-> "none"]
    /\ player_map = <<>>
    /\ queue_lock = None
    /\ handlers = <<>>
    /\ socks = <<>>
    /\ senders = <<>>
    /\ iterating = <<>>

NextCodec ==
    \/ \E max_id \in Boundaries : CallGetIdCode(max_id)
    \/ \E ids \in IdSets, max_id \in Ceilings : CallStructInit(ids, max_id)
    \/ \E code \in TextCodes, cap \in Boundaries, size \in Boundaries : CallPack(code, cap, size)
    \/ \E code \in TextCodes, cap \in Boundaries, size \in Boundaries : CallSerialize(code, cap, size)

SpecCodec == InitCodec /\ [][NextCodec]_vars

IdCodeSet == {IdCodes[i] : i \in 1..Len(IdCodes)}

\* what a round trip through a reader returns: every message handed to the
\* callback is the instance the peer serialized, and the reader has consumed
\* exactly the bytes of the frames up to it
ReaderRoundTrip ==
    \A c \in DOMAIN readers :
        LET r == readers[c]
        IN  (r.pc = "callback" /\ r.nframes <= CleanCount) =>
                /\ The(r.message) = CleanMsgs[r.nframes]
                /\ r.rpos = FrameEnd(r.nframes)

\* C1: every instance whose text values are within their fields' maxima is
\* serialized, and deserialize reading those bytes returns an equal instance
\* and consumes exactly that frame.
C1_RoundTrip ==
    /\ (pure.op = "serialize" /\ ~NumGt(pure.size, pure.max_length)) => pure.res = "ok"
    /\ ReaderRoundTrip

\* C5: get_id_code(max_id) is the narrowest width w with 2^(8*bytewidth(w)) > max_id.
C5_NarrowestWidth ==
    pure.op = "get_id_code" =>
        /\ pure.res \in IdCodeSet
        /\ NumGt(Pow2(8 * StdSize(pure.res)), pure.max_id)
        /\ \A code \in IdCodeSet :
               StdSize(code) < StdSize(pure.res) => ~NumGt(Pow2(8 * StdSize(code)), pure.max_id)

\* C6: the id width of a reader or writer is the smallest width whose largest
\* value exceeds max_id, max_id being the ceiling when one is supplied (0
\* included) and the largest registered id otherwise; reader and writer agree.
C6_RegistryWidth ==
    pure.op = "struct_init" =>
        LET max_id == IF pure.max_id # None THEN The(pure.max_id) ELSE NumMax(pure.ids)
            wide == {code \in IdCodeSet : NumGt(StdMax(code), max_id)}
        IN  /\ pure.reader = pure.writer
            /\ wide # {} =>
                   /\ pure.reader \in wide
                   /\ \A code \in wide : StdSize(pure.reader) <= StdSize(code)

\* C7: pack fails with ValueError exactly when the encoded length exceeds the
\* field's maximum; the maximum is the caller's cap when one is given, and
\* never exceeds what the length prefix can hold on the wire.
C7_PackLengthEnforced ==
    pure.op = "pack" =>
        /\ (pure.res = "ValueError") <=> NumGt(pure.size, pure.max_length)
        /\ pure.cap # NumZero => pure.max_length = pure.cap
        /\ ~NumGt(pure.max_length, StdMax(pure.code))

====
